---------------------------- MODULE Spec2Model ----------------------------
(***************************************************************************)
(* A model of the local backend of libiio (src/local.c): the poll utility  *)
(* (get_rel_timeout_ms, buffer_check_ready), the byte-stream path           *)
(* (local_readbuf, local_writebuf, local_cancel_buffer), the buffer         *)
(* lifecycle (local_create_buffer, local_enable_buffer, local_free_buffer)  *)
(* and the device scan of local_create_context.                             *)
(*                                                                         *)
(* Each part has its own specification over the shared variables; the      *)
(* variables of the other parts stay at their initial values.              *)
(***************************************************************************)
EXTENDS Integers, Sequences, FiniteSets, TLC

(***************************************************************************)
(* Integer widths.  The C code computes with 32-bit int and unsigned int.  *)
(* The model keeps the wrap-around but on IntBits bits, so that the values *)
(* around INT_MAX and UINT_MAX stay within reach of the model checker.     *)
(***************************************************************************)
IntBits == 12

TwoPow == 2 ^ IntBits

INT_MAX == 2 ^ (IntBits - 1) - 1

UINT_MAX == TwoPow - 1

\* conversion to unsigned int: reduction modulo 2^w
ToUInt(x) == x % TwoPow

\* conversion to int: the two's complement reading of the low w bits
ToInt(x) == IF x % TwoPow > INT_MAX THEN (x % TwoPow) - TwoPow ELSE x % TwoPow

\* C integer division truncates toward zero
CDiv(a, b) == IF a >= 0 THEN a \div b ELSE -((-a) \div b)

Max(a, b) == IF a >= b THEN a ELSE b

Min(a, b) == IF a <= b THEN a ELSE b

(***************************************************************************)
(* errno values (Linux), as the code negates and returns them.             *)
(***************************************************************************)
ENOENT == 2

EINTR == 4

EIO == 5

EBADF == 9

EAGAIN == 11

ENOMEM == 12

EACCES == 13

EBUSY == 16

EINVAL == 22

ENOSYS == 38

ETIMEDOUT == 110

(***************************************************************************)
(* Bounds of the model.                                                    *)
(***************************************************************************)
\* number of clock advances in the timeout specification
MaxTicks == 3

\* the largest len given to local_readbuf and local_writebuf
MaxLen == 2

\* the last clock reading of the byte-stream specification, in ms
MaxClock == 3

\* the largest value the eventfd counter holds (2^64 - 2 in the kernel)
EventfdMax == 2

\* a timeout_ms short enough to expire before MaxClock
ShortTimeout == 2

\* the largest buffer index given to local_create_buffer
MaxIdx == 1

\* the largest number of entries of a scanned directory
MaxDevs == 2

\* the largest number of blocks of a buffer
MaxBlocks == 2

\* the largest number of files of a device directory
MaxFiles == 4

\* the largest number of exposed attributes of a channel that is named
MaxAttrs == 2

\* the largest number of protected attributes of a channel that is named
MaxProt == 1

\* the largest number of add_channel calls on one device
MaxCalls == 3

VARIABLES
    \* ---- get_rel_timeout_ms ------------------------------------------
    clk_start,      \* the timespec start, in ms of the monotonic clock
    clk_now,        \* the monotonic clock, in ms
    clk_ticks,      \* clock advances so far
    rw_timeout,     \* the unsigned int timeout_rel given to the calls
    rel_calls,      \* the last two calls: <<[at, ret], ...>>, latest last
    \* ---- local_readbuf / local_writebuf / local_cancel_buffer ----------
    io_pc,          \* where the calling thread is: idle, check, poll, xfer, done
    io_op,          \* the call: read, write, or a bare non-blocking readiness check
    io_req,         \* the len argument of the call
    io_len,         \* the local len: bytes still to transfer
    io_cnt,         \* ptr - dst: bytes transferred so far
    io_ret,         \* the local ret
    io_result,      \* the value the call returned
    io_start,       \* the struct timespec start of the call, in ms
    io_now,         \* the monotonic clock, in ms
    io_timeout,     \* dev->ctx->params.timeout_ms
    io_deadline,    \* when the poll in progress expires; -1: it never does
    pdata_fd,       \* buffer->fd
    cancel_cnt,     \* the counter of the eventfd cancel_fd
    fd_ready,       \* the poll conditions now true of the data descriptor
    cancelled,      \* history: local_cancel_buffer has been called
    io_cancelled,   \* history: the call began after a cancellation
    io_blocked,     \* history: the call was cancelled while it was blocked in poll
    \* ---- local_create_buffer / local_enable_buffer / local_free_buffer --
    b_pc,           \* where the thread is: none, cb_*, ready, en_*, free
    b_op,           \* the call in progress, or the last one: create, enable, free
    b_idx,          \* the idx argument of local_create_buffer
    b_mask,         \* the channels mask, as the call leaves it
    b_maskreq,      \* the channels mask as the caller gave it
    b_i,            \* the loop index i, or the step of local_free_buffer
    b_err,          \* the local err
    b_fd,           \* the local fd
    b_cancel_fd,    \* the local cancel_fd
    b_ioctl,        \* the result of the ioctl; 1: not called
    b_result,       \* the value the last call returned: 0 or the error
    pdata,          \* the struct iio_buffer_pdata
    pdata_live,     \* pdata is allocated and owned by the caller
    open_fds,       \* the descriptors open in the process
    oplog,          \* the system calls of the call in progress, in order
    buf_enable,     \* sysfs: the buffer's enable attribute
    buf_length,     \* sysfs: the buffer's length attribute
    buf_watermark,  \* sysfs: the buffer's watermark attribute
    chn_en,         \* sysfs: the enable attribute of each channel
    dev_chans,      \* dev->channels
    hw_mode,        \* how the hardware couples the channel enables
    en_nb,          \* the nb_samples argument of local_enable_buffer
    en_arg,         \* the enable argument of local_enable_buffer
    probed,         \* the block backends have set the capability flags
    \* ---- local_create_context ------------------------------------------
    cx_pc,          \* idle, opendir, readdir, scanned, finish, done
    with_hwmon,     \* the build option WITH_HWMON
    iio_dir,        \* /sys/bus/iio/devices
    hwmon_dir,      \* /sys/class/hwmon
    cx_dir,         \* the directory being scanned: iio or hwmon
    cx_i,           \* the next entry readdir returns
    cx_ret,         \* the local ret
    cx_no_iio,      \* the local no_iio
    cx_result,      \* the value local_create_context returned: 0 or the error
    ctx_devs,       \* the devices of the context
    cx_visited,     \* history: the device directories create_device was called for
    cx_failed,      \* history: the devices whose construction failed, with the error
    \* ---- local_create_block and the block operations --------------------
    with_dmabuf,    \* the build option WITH_LOCAL_DMABUF_API
    with_mmap,      \* the build option WITH_LOCAL_MMAP_API
    blk_flags,      \* dmabuf_supported and mmap_supported of the buffer
    blk_pc,         \* local_create_block: idle, dmabuf, mmap, done
    blk_tried,      \* the backends the call tried, with their results, in order
    blk_ret,        \* the value local_create_block returned: 0 for a block; 1: none
    blk_blocks,     \* the blocks of the buffer, each by the backend that made it
    blk_target,     \* the backend that made the block of the last operation
    blk_op,         \* the last block operation: create, enqueue, dequeue, free
    blk_disp,       \* the backends the last enqueue, dequeue or free went to
    blk_op_ret,     \* the value the last enqueue or dequeue returned
    \* ---- handle_protected_scan_element_attr, "type" ----------------------
    ty_pc,          \* idle, unread, parsed
    ty_given,       \* the parts the type string was made of
    ty_buf,         \* buf: the content of the type file
    ty_n,           \* the number of values sscanf assigned
    chn_format,     \* chn->format
    \* ---- create_device: attributes and channels ---------------------------
    dv_pc,          \* scan, names, global, leftover, done, failed
    dv_files,       \* the names of the files of the device directory
    dv_i,           \* the index of the loop in progress
    dv_attrs,       \* dev->attrs.names; <<>> is NULL
    dv_chans,       \* dev->channels
    dv_ret,         \* the value create_device returns
    dv_nchan,       \* history: nb_channels when detect_and_move_global_attrs began
    dv_moved,       \* history: the attributes tested, and the channels each was added to
    \* ---- is_channel, get_channel_id on one name ----------------------------
    nm_pc,          \* idle, drawn, strict, tested, identified
    nm_attr,        \* the attribute name
    nm_strict,      \* what is_channel returned in its strict mode
    nm_loose,       \* what is_channel returned in its non-strict mode
    nm_id,          \* what get_channel_id returned
    \* ---- set_channel_name on one channel -----------------------------------
    cn_pc,          \* idle, new, named, failed
    cn_attrs,       \* chn->attrs
    cn_prot,        \* pdata->protected_attrs
    cn_has_name,    \* chn->name is set
    cn_name,        \* chn->name
    cn_ret,         \* the value set_channel_name returned
    cn_given,       \* history: the attributes the channel had at the call
    \* ---- add_channel, call after call --------------------------------------
    ac_chans,       \* dev->channels
    ac_prot,        \* the protected attributes of each channel
    ac_n,           \* the number of the next call; 0 when none is made
    ac_last         \* history: the last call and what it returned

tvars == <<clk_start, clk_now, clk_ticks, rw_timeout, rel_calls>>

iovars == <<io_pc, io_op, io_req, io_len, io_cnt, io_ret, io_result, io_start, io_now,
            io_timeout, io_deadline, pdata_fd, cancel_cnt, fd_ready, cancelled,
            io_cancelled, io_blocked>>

bufvars == <<b_pc, b_op, b_idx, b_mask, b_maskreq, b_i, b_err, b_fd, b_cancel_fd, b_ioctl,
             b_result, pdata, pdata_live, open_fds, oplog, buf_enable, buf_length,
             buf_watermark, chn_en, dev_chans, hw_mode, en_nb, en_arg, probed>>

ctxvars == <<with_hwmon, iio_dir, hwmon_dir, cx_pc, cx_dir, cx_i, cx_ret, cx_no_iio,
             cx_result, ctx_devs, cx_visited, cx_failed>>

blkvars == <<with_dmabuf, with_mmap, blk_flags, blk_pc, blk_tried, blk_ret, blk_blocks,
             blk_target, blk_op, blk_disp, blk_op_ret>>

fmtvars == <<ty_pc, ty_given, ty_buf, ty_n, chn_format>>

devvars == <<dv_pc, dv_files, dv_i, dv_attrs, dv_chans, dv_ret, dv_nchan, dv_moved>>

namevars == <<nm_pc, nm_attr, nm_strict, nm_loose, nm_id>>

chnvars == <<cn_pc, cn_attrs, cn_prot, cn_has_name, cn_name, cn_ret, cn_given>>

addvars == <<ac_chans, ac_prot, ac_n, ac_last>>

vars == <<tvars, iovars, bufvars, ctxvars, blkvars, fmtvars, devvars, namevars, chnvars, addvars>>

(***************************************************************************)
(*                         get_rel_timeout_ms                              *)
(***************************************************************************)
MsPerSec == 1000

NsPerMs == 1000000

\* a struct timespec for a clock reading given in ms
Timespec(ms) == [tv_sec |-> ms \div MsPerSec, tv_nsec |-> (ms % MsPerSec) * NsPerMs]

\* lines 210-211: diff_ms is an int; both assignments convert to int
DiffMs(start, now) ==
    LET d1 == ToInt((now.tv_sec - start.tv_sec) * MsPerSec)
    IN  ToInt(d1 + CDiv(now.tv_nsec - start.tv_nsec, NsPerMs))

\* a mutant: the remaining time is not reduced by the elapsed time
get_rel_timeout_ms_NoRecompute(start, timeout_rel, now) ==
    IF timeout_rel = 0 THEN -1
    ELSE IF DiffMs(start, now) >= ToInt(timeout_rel) THEN 0
    ELSE IF timeout_rel > INT_MAX THEN INT_MAX
    ELSE timeout_rel

\* lines 200-221; now is what clock_gettime(CLOCK_MONOTONIC) returns
get_rel_timeout_ms(start, timeout_rel, now) ==
    IF timeout_rel = 0 THEN -1
    ELSE LET diff_ms == DiffMs(start, now)
             rel == IF diff_ms > 0 THEN ToUInt(timeout_rel - diff_ms) ELSE timeout_rel
         IN  IF diff_ms >= ToInt(timeout_rel) THEN 0
             ELSE IF rel > INT_MAX THEN INT_MAX
             ELSE rel

(***************************************************************************)
(*        buffer_check_ready, local_readbuf, local_writebuf,               *)
(*                      local_cancel_buffer                                *)
(*                                                                         *)
(* One thread drives the buffer and calls local_readbuf, local_writebuf or *)
(* (from the block backends) buffer_check_ready without a start time; any  *)
(* other thread may call local_cancel_buffer at any moment.  The device    *)
(* makes the data descriptor ready or not as it pleases.  poll(2) on two   *)
(* descriptors fails with EINTR only.                                      *)
(***************************************************************************)
\* the descriptor open() returned in local_create_buffer
DataFd == 3

PollEvents == {"POLLIN", "POLLOUT"}

\* conditions poll reports whether asked for or not
PollAlways == {"POLLERR", "POLLHUP", "POLLNVAL"}

\* what the device can make of the data descriptor
FdStates == {{}, {"POLLIN"}, {"POLLOUT"}, {"POLLIN", "POLLOUT"}, {"POLLERR"},
             {"POLLHUP"}, {"POLLIN", "POLLHUP"}, {"POLLNVAL"}}

RwOps == {"read", "write"}

\* buffer_check_ready called with start = NULL, for POLLIN or for POLLOUT
CheckOps == {"check_in", "check_out"}

\* the events argument of buffer_check_ready for each call
EventsOf(op) == IF op \in {"read", "check_in"} THEN {"POLLIN"} ELSE {"POLLOUT"}

\* a mutant: the cancellation descriptor is looked at after the data descriptor
buffer_check_ready_CancelLast(ret, err, revents0, revents1, events, has_start) ==
    IF ret < 0 THEN -err
    ELSE IF ret = 0 THEN (IF has_start THEN -ETIMEDOUT ELSE -EBUSY)
    ELSE IF "POLLNVAL" \in revents0 THEN -EBADF
    ELSE IF revents0 \cap events # {} THEN 0
    ELSE IF "POLLIN" \in revents1 THEN -EBADF
    ELSE -EIO

\* a mutant: an expired wait is reported as a timeout also without a start time
buffer_check_ready_NoBusy(ret, err, revents0, revents1, events, has_start) ==
    IF "POLLIN" \in revents1 THEN -EBADF
    ELSE IF ret < 0 THEN -err
    ELSE IF ret = 0 THEN -ETIMEDOUT
    ELSE IF "POLLNVAL" \in revents0 THEN -EBADF
    ELSE IF revents0 \cap events = {} THEN -EIO
    ELSE 0

\* lines 247-258: the result, from what the last poll returned (ret, errno) and
\* reported (revents0 of the data descriptor, revents1 of cancel_fd)
buffer_check_ready(ret, err, revents0, revents1, events, has_start) ==
    IF "POLLIN" \in revents1 THEN -EBADF
    ELSE IF ret < 0 THEN -err
    ELSE IF ret = 0 THEN (IF has_start THEN -ETIMEDOUT ELSE -EBUSY)
    ELSE IF "POLLNVAL" \in revents0 THEN -EBADF
    ELSE IF revents0 \cap events = {} THEN -EIO
    ELSE 0

\* poll(2): what it reports of the data descriptor and of cancel_fd
Revents0(events) == fd_ready \cap (events \cup PollAlways)

Revents1 == IF cancel_cnt > 0 THEN {"POLLIN"} ELSE {}

PollCount(events) ==
    (IF Revents0(events) # {} THEN 1 ELSE 0) + (IF Revents1 # {} THEN 1 ELSE 0)

\* a mutant: a partial count is returned whatever ended the loop
rw_result_Partial(ret, cnt) == IF cnt > 0 THEN cnt ELSE ret

\* lines 367-371 and 415-419: the value the call returns
rw_result(ret, cnt) == IF (ret > 0 \/ ret = -EAGAIN) /\ cnt > 0 THEN cnt ELSE ret

IOIdle ==
    /\ io_pc = "idle"
    /\ io_op = "none"
    /\ io_req = 0
    /\ io_len = 0
    /\ io_cnt = 0
    /\ io_ret = 0
    /\ io_result = 0
    /\ io_start = 0
    /\ io_now = 0
    /\ io_timeout = 0
    /\ io_deadline = -1
    /\ pdata_fd = DataFd
    /\ cancel_cnt = 0
    /\ fd_ready = {}
    /\ cancelled = FALSE
    /\ io_cancelled = FALSE
    /\ io_blocked = FALSE

\* a buffer as local_create_buffer returns it: both descriptors open, the
\* eventfd counter 0; timeout_ms is 0 (none) or short
InitIO ==
    /\ io_pc = "idle"
    /\ io_op = "none"
    /\ io_req = 0
    /\ io_len = 0
    /\ io_cnt = 0
    /\ io_ret = 0
    /\ io_result = 0
    /\ io_start = 0
    /\ io_now = 0
    /\ io_timeout \in {0, ShortTimeout}
    /\ io_deadline = -1
    /\ pdata_fd = DataFd
    /\ cancel_cnt = 0
    /\ fd_ready \in FdStates
    /\ cancelled = FALSE
    /\ io_cancelled = FALSE
    /\ io_blocked = FALSE

\* lines 336-342 and 383-389: the entry of local_readbuf (op = read) and of
\* local_writebuf (op = write)
rw_Begin(op, len) ==
    /\ io_pc \in {"idle", "done"}
    /\ io_op' = op
    /\ io_req' = len
    /\ io_len' = len
    /\ io_cnt' = 0
    /\ io_cancelled' = cancelled
    /\ io_blocked' = FALSE
    /\ io_deadline' = -1
    /\ IF pdata_fd = -1
       THEN io_pc' = "done" /\ io_result' = -EBADF /\ io_ret' = 0 /\ io_start' = io_start
       ELSE IF len = 0
       THEN io_pc' = "done" /\ io_result' = 0 /\ io_ret' = 0 /\ io_start' = io_start
       ELSE io_pc' = "check" /\ io_result' = 0 /\ io_ret' = 0 /\ io_start' = io_now
    /\ UNCHANGED <<io_now, io_timeout, pdata_fd, cancel_cnt, fd_ready, cancelled>>

local_readbuf == \E len \in 0..MaxLen : rw_Begin("read", len)

local_writebuf == \E len \in 0..MaxLen : rw_Begin("write", len)

\* a caller outside this file (a block backend dequeuing without blocking) calls
\* buffer_check_ready(pdata, fd, events, NULL)
check_ready_nonblock ==
    /\ io_pc \in {"idle", "done"}
    /\ \E op \in CheckOps : io_op' = op
    /\ io_pc' = "check"
    /\ io_req' = 0
    /\ io_len' = 0
    /\ io_cnt' = 0
    /\ io_ret' = 0
    /\ io_result' = 0
    /\ io_cancelled' = cancelled
    /\ io_blocked' = FALSE
    /\ io_deadline' = -1
    /\ UNCHANGED <<io_start, io_now, io_timeout, pdata_fd, cancel_cnt, fd_ready, cancelled>>

\* lines 239-244: the timeout is computed and poll is entered
poll_enter ==
    /\ io_pc = "check"
    /\ LET timeout_rel == IF io_op \in RwOps
                          THEN get_rel_timeout_ms(Timespec(io_start), io_timeout,
                                                  Timespec(io_now))
                          ELSE 0
       IN  io_deadline' = IF timeout_rel < 0 THEN -1 ELSE io_now + timeout_rel
    /\ io_pc' = "poll"
    /\ UNCHANGED <<io_op, io_req, io_len, io_cnt, io_ret, io_result, io_start, io_now,
                   io_timeout, pdata_fd, cancel_cnt, fd_ready, cancelled, io_cancelled,
                   io_blocked>>

\* what follows buffer_check_ready returning r: lines 346-347 and 367-371 in
\* local_readbuf, the return to the caller for a bare check
after_check(r) ==
    /\ io_ret' = r
    /\ IF io_op \in CheckOps
       THEN io_pc' = "done" /\ io_result' = r
       ELSE IF r < 0
       THEN io_pc' = "done" /\ io_result' = rw_result(r, io_cnt)
       ELSE io_pc' = "xfer" /\ io_result' = io_result

\* line 244: poll returns because a descriptor is ready
poll_ready ==
    /\ io_pc = "poll"
    /\ PollCount(EventsOf(io_op)) > 0
    /\ after_check(buffer_check_ready(PollCount(EventsOf(io_op)), 0,
                                      Revents0(EventsOf(io_op)), Revents1,
                                      EventsOf(io_op), io_op \in RwOps))
    /\ UNCHANGED <<io_op, io_req, io_len, io_cnt, io_start, io_now, io_timeout,
                   io_deadline, pdata_fd, cancel_cnt, fd_ready, cancelled, io_cancelled,
                   io_blocked>>

\* line 244: poll returns 0, its timeout expired with nothing ready
poll_expired ==
    /\ io_pc = "poll"
    /\ PollCount(EventsOf(io_op)) = 0
    /\ io_deadline >= 0
    /\ io_now >= io_deadline
    /\ after_check(buffer_check_ready(0, 0, {}, {}, EventsOf(io_op), io_op \in RwOps))
    /\ UNCHANGED <<io_op, io_req, io_len, io_cnt, io_start, io_now, io_timeout,
                   io_deadline, pdata_fd, cancel_cnt, fd_ready, cancelled, io_cancelled,
                   io_blocked>>

\* lines 244-245: a signal interrupts the poll, and the loop computes the
\* timeout again
poll_eintr ==
    /\ io_pc = "poll"
    /\ PollCount(EventsOf(io_op)) = 0
    /\ io_pc' = "check"
    /\ UNCHANGED <<io_op, io_req, io_len, io_cnt, io_ret, io_result, io_start, io_now,
                   io_timeout, io_deadline, pdata_fd, cancel_cnt, fd_ready, cancelled,
                   io_cancelled, io_blocked>>

\* a mutant: a read or write that would block ends the call
xfer_step_NoRetry(ret, err) ==
    IF ret = -1
    THEN IF err = EINTR THEN [next |-> "again", ret |-> -1]
         ELSE [next |-> "break", ret |-> -err]
    ELSE IF ret = 0 THEN [next |-> "break", ret |-> -EIO]
    ELSE [next |-> "advance", ret |-> ret]

\* a mutant: a transfer of 0 bytes ends the loop as a transfer does
xfer_step_ZeroEnds(ret, err) ==
    IF ret = -1
    THEN IF err = EINTR THEN [next |-> "again", ret |-> -1]
         ELSE IF err = EAGAIN THEN [next |-> "continue", ret |-> -1]
         ELSE [next |-> "break", ret |-> -err]
    ELSE IF ret = 0 THEN [next |-> "break", ret |-> 0]
    ELSE [next |-> "advance", ret |-> ret]

\* lines 349-364 and 396-412: what the loop does with the value ret and the
\* errno err of read or write: call it again, continue with the next poll,
\* break with ret set, or advance by the bytes transferred
xfer_step(ret, err) ==
    IF ret = -1
    THEN IF err = EINTR THEN [next |-> "again", ret |-> -1]
         ELSE IF err = EAGAIN THEN [next |-> "continue", ret |-> -1]
         ELSE [next |-> "break", ret |-> -err]
    ELSE IF ret = 0 THEN [next |-> "break", ret |-> -EIO]
    ELSE [next |-> "advance", ret |-> ret]

\* lines 349-371 and 396-419: the loop after read or write returned
xfer_apply(ret, err) ==
    LET s == xfer_step(ret, err)
    IN  /\ io_ret' = s.ret
        /\ CASE s.next = "again" -> UNCHANGED <<io_pc, io_cnt, io_len, io_result>>
             [] s.next = "continue" ->
                    io_pc' = "check" /\ UNCHANGED <<io_cnt, io_len, io_result>>
             [] s.next = "break" ->
                    /\ io_pc' = "done"
                    /\ io_result' = rw_result(s.ret, io_cnt)
                    /\ UNCHANGED <<io_cnt, io_len>>
             [] OTHER ->
                    /\ io_cnt' = io_cnt + s.ret
                    /\ io_len' = io_len - s.ret
                    /\ IF io_len - s.ret > 0
                       THEN io_pc' = "check" /\ io_result' = io_result
                       ELSE io_pc' = "done" /\ io_result' = rw_result(s.ret, io_cnt + s.ret)

\* lines 349-364 and 396-412: read or write transfers n bytes
xfer_bytes ==
    /\ io_pc = "xfer"
    /\ EventsOf(io_op) \subseteq fd_ready
    /\ \E n \in 1..io_len : xfer_apply(n, 0)
    /\ UNCHANGED <<io_op, io_req, io_start, io_now, io_timeout, io_deadline, pdata_fd,
                   cancel_cnt, fd_ready, cancelled, io_cancelled, io_blocked>>

\* lines 353-355 and 400-402: nothing to transfer after all, EAGAIN: continue
xfer_eagain ==
    /\ io_pc = "xfer"
    /\ ~(EventsOf(io_op) \subseteq fd_ready)
    /\ xfer_apply(-1, EAGAIN)
    /\ UNCHANGED <<io_op, io_req, io_start, io_now, io_timeout, io_deadline, pdata_fd,
                   cancel_cnt, fd_ready, cancelled, io_cancelled, io_blocked>>

\* lines 349-351 and 396-398: a signal interrupts read or write, which is called again
xfer_eintr ==
    /\ io_pc = "xfer"
    /\ io_ret # -1
    /\ xfer_apply(-1, EINTR)
    /\ UNCHANGED <<io_op, io_req, io_start, io_now, io_timeout, io_deadline, pdata_fd,
                   cancel_cnt, fd_ready, cancelled, io_cancelled, io_blocked>>

\* lines 356-360 and 404-408: read or write fails with another errno, or returns 0
xfer_fails ==
    /\ io_pc = "xfer"
    /\ \E r \in {-EIO, -EINVAL, 0} :
          IF r = 0 THEN xfer_apply(0, 0) ELSE xfer_apply(-1, -r)
    /\ UNCHANGED <<io_op, io_req, io_start, io_now, io_timeout, io_deadline, pdata_fd,
                   cancel_cnt, fd_ready, cancelled, io_cancelled, io_blocked>>

\* lines 1393-1404: another thread adds 1 to the eventfd counter; the write
\* fails, and is only logged, when the counter is at its maximum
local_cancel_buffer ==
    /\ cancel_cnt' = IF cancel_cnt < EventfdMax THEN cancel_cnt + 1 ELSE cancel_cnt
    /\ cancelled' = TRUE
    /\ io_blocked' = (io_blocked \/ (io_pc = "poll" /\ io_op \in RwOps /\ cancel_cnt = 0
                                       /\ PollCount(EventsOf(io_op)) = 0))
    /\ <<cancel_cnt, cancelled, io_blocked>>' # <<cancel_cnt, cancelled, io_blocked>>
    /\ UNCHANGED <<io_pc, io_op, io_req, io_len, io_cnt, io_ret, io_result, io_start,
                   io_now, io_timeout, io_deadline, pdata_fd, fd_ready, io_cancelled>>

\* the device: data arrives or is consumed, space frees up, an error shows
device_event ==
    /\ \E s \in FdStates : fd_ready' = s
    /\ fd_ready' # fd_ready
    /\ UNCHANGED <<io_pc, io_op, io_req, io_len, io_cnt, io_ret, io_result, io_start,
                   io_now, io_timeout, io_deadline, pdata_fd, cancel_cnt, cancelled,
                   io_cancelled, io_blocked>>

\* time passes; a poll with a timeout returns when the timeout is over
io_tick ==
    /\ io_now < MaxClock
    /\ io_pc = "poll" /\ io_deadline >= 0 => io_now < io_deadline
    /\ io_now' = io_now + 1
    /\ UNCHANGED <<io_pc, io_op, io_req, io_len, io_cnt, io_ret, io_result, io_start,
                   io_timeout, io_deadline, pdata_fd, cancel_cnt, fd_ready, cancelled,
                   io_cancelled, io_blocked>>

\* the steps of the thread inside a call
caller_step ==
    poll_enter \/ poll_ready \/ poll_expired \/ poll_eintr
        \/ xfer_bytes \/ xfer_eagain \/ xfer_eintr \/ xfer_fails

(***************************************************************************)
(*          the specification of get_rel_timeout_ms alone                  *)
(***************************************************************************)
\* the timeouts tried: none, short, one second, and around INT_MAX and UINT_MAX
TimeoutSamples == {0, 1, 2, MsPerSec, INT_MAX, INT_MAX + 1, INT_MAX + 2, UINT_MAX}

\* start times: on a second boundary and just before one
StartSamples == {0, MsPerSec - 1}

\* clock advances between calls
TickSamples == {1, MsPerSec - 1, INT_MAX}

TimeoutIdle ==
    /\ clk_start = 0
    /\ clk_now = 0
    /\ clk_ticks = 0
    /\ rw_timeout = 0
    /\ rel_calls = <<>>

InitTimeout ==
    /\ clk_start \in StartSamples
    /\ clk_now = clk_start
    /\ clk_ticks = 0
    /\ rw_timeout \in TimeoutSamples
    /\ rel_calls = <<>>

\* the monotonic clock advances
ClockAdvance ==
    /\ clk_ticks < MaxTicks
    /\ \E d \in TickSamples :
          /\ clk_now + d - clk_start <= UINT_MAX
          /\ clk_now' = clk_now + d
    /\ clk_ticks' = clk_ticks + 1
    /\ UNCHANGED <<clk_start, rw_timeout, rel_calls>>

\* one call get_rel_timeout_ms(&start, timeout_rel)
CallRelTimeout ==
    LET r == [at |-> clk_now,
              ret |-> get_rel_timeout_ms(Timespec(clk_start), rw_timeout, Timespec(clk_now))]
    IN  /\ rel_calls' = IF Len(rel_calls) = 2 THEN <<rel_calls[2], r>> ELSE Append(rel_calls, r)
        /\ rel_calls' # rel_calls
        /\ UNCHANGED <<clk_start, clk_now, clk_ticks, rw_timeout>>

\* elapsed milliseconds since start at a call
Elapsed(c) == c.at - clk_start

(***************************************************************************)
(*     local_create_buffer, local_enable_buffer, local_free_buffer         *)
(*                                                                         *)
(* One thread creates a buffer on a device, enables it and frees it.  The  *)
(* kernel side is the sysfs state (the buffer's enable, length and         *)
(* watermark attributes, each channel's enable attribute) and the table of *)
(* open descriptors; every system call may fail.  oplog lists the system   *)
(* calls of the operation in progress, in the order they were made.        *)
(***************************************************************************)
\* the channels of the devices tried: index is chn->index (-ENOENT when the
\* channel is no scan element), has_en tells whether pdata->enable_fn is set
DeviceLayouts ==
    { <<[index |-> 0, has_en |-> TRUE], [index |-> 1, has_en |-> TRUE]>>,
      <<[index |-> 0, has_en |-> TRUE], [index |-> -ENOENT, has_en |-> FALSE]>>,
      <<[index |-> 0, has_en |-> TRUE], [index |-> 1, has_en |-> FALSE]>> }

\* how the hardware takes a channel enable: as written; both channels together;
\* or the last channel cannot be enabled
HwModes == {"plain", "coupled", "stuck"}

\* results of fopen/fwrite/fread on a sysfs file: 0 stands for success
SysfsOutcomes == {0, -ENOENT, -EACCES, -EINVAL}

\* the sample counts given to local_enable_buffer
SampleCounts == {0, 4}

\* the lowest descriptor not in use, as the kernel hands them out
NewFd(fds) == CHOOSE n \in 3..(3 + Cardinality(fds)) :
                 n \notin fds /\ \A k \in 3..(n - 1) : k \in fds

NoPdata == [fd |-> -1, cancel_fd |-> -1, idx |-> 0, multi_buffer |-> FALSE,
            dmabuf_supported |-> FALSE, mmap_supported |-> FALSE]

Ev(ev, fd, attr, chn, val, res) ==
    [ev |-> ev, fd |-> fd, attr |-> attr, chn |-> chn, val |-> val, res |-> res]

\* lines 485-536: buf_id > 0 is refused; otherwise the result of the file
\* operations (their error, or the byte count, here 0 for success)
local_write_dev_attr(buf_id, outcome) == IF buf_id > 0 THEN -ENOSYS ELSE outcome

\* lines 422-483
local_read_dev_attr(buf_id, outcome) == IF buf_id > 0 THEN -ENOSYS ELSE outcome

\* a mutant: "1" is written whatever the argument
do_enable_value_Always1(enable) == 1

\* lines 297-299: the value local_do_enable_buffer writes to "enable"
do_enable_value(enable) == IF enable THEN 1 ELSE 0

\* a mutant: an ioctl failure is tolerated for every index
after_ioctl_Tolerant(err, idx) == IF err = 0 THEN "replace" ELSE "keep"

\* lines 1462-1468: what local_create_buffer does with the ioctl's result
after_ioctl(err, idx) ==
    IF err = 0 THEN "replace" ELSE IF idx > 0 THEN "fail" ELSE "keep"

\* a mutant: the check as the capability contract is often read
enable_check_Inverted(dmabuf, mmap, nb_samples) == (dmabuf \/ mmap) = (nb_samples # 0)

\* line 311: TRUE when the call goes on, FALSE when it returns -EINVAL
enable_check(dmabuf, mmap, nb_samples) == (dmabuf \/ mmap) = (nb_samples = 0)

\* a mutant: the buffer is not disabled when it is freed
local_free_buffer_steps_NoDisable == <<"close_fd", "close_cancel_fd">>

\* lines 1528-1533: the system calls of local_free_buffer, in order
local_free_buffer_steps == <<"close_fd", "close_cancel_fd", "disable">>

\* the hardware's view of the channel enables after "1" was written for channel c
HwEnable(en, c) ==
    IF hw_mode = "coupled"
    THEN [k \in DOMAIN en |-> IF dev_chans[k].index >= 0 THEN TRUE ELSE en[k]]
    ELSE IF hw_mode = "stuck" /\ c = Len(dev_chans) THEN en
    ELSE [en EXCEPT ![c] = TRUE]

BufIdle ==
    /\ b_pc = "none"
    /\ b_op = "none"
    /\ b_idx = 0
    /\ b_mask = {}
    /\ b_maskreq = {}
    /\ b_i = 0
    /\ b_err = 0
    /\ b_fd = -1
    /\ b_cancel_fd = -1
    /\ b_ioctl = 1
    /\ b_result = 0
    /\ pdata = NoPdata
    /\ pdata_live = FALSE
    /\ open_fds = {}
    /\ oplog = <<>>
    /\ buf_enable = 0
    /\ buf_length = 0
    /\ buf_watermark = 0
    /\ chn_en = <<FALSE, FALSE>>
    /\ dev_chans = <<[index |-> 0, has_en |-> TRUE], [index |-> 1, has_en |-> TRUE]>>
    /\ hw_mode = "plain"
    /\ en_nb = 0
    /\ en_arg = FALSE
    /\ probed = FALSE

\* no buffer yet; the device and what earlier users left in sysfs are arbitrary
InitBuf ==
    /\ b_pc = "none"
    /\ b_op = "none"
    /\ b_idx = 0
    /\ b_mask = {}
    /\ b_maskreq = {}
    /\ b_i = 0
    /\ b_err = 0
    /\ b_fd = -1
    /\ b_cancel_fd = -1
    /\ b_ioctl = 1
    /\ b_result = 0
    /\ pdata = NoPdata
    /\ pdata_live = FALSE
    /\ open_fds = {}
    /\ oplog = <<>>
    /\ buf_enable \in {0, 1}
    /\ buf_length = 0
    /\ buf_watermark = 0
    /\ dev_chans \in DeviceLayouts
    /\ chn_en \in {<<FALSE, FALSE>>, <<TRUE, TRUE>>}
    /\ hw_mode \in HwModes
    /\ en_nb = 0
    /\ en_arg = FALSE
    /\ probed = FALSE

\* ---------------------------------------------------- local_create_buffer

\* lines 1435-1446: the call, and the allocations
cb_begin ==
    /\ b_pc = "none"
    /\ \E idx \in 0..MaxIdx, mask \in SUBSET (1..Len(dev_chans)), ok \in BOOLEAN :
          /\ b_idx' = idx
          /\ b_mask' = mask
          /\ b_maskreq' = mask
          /\ IF ok THEN b_pc' = "cb_eventfd" /\ b_result' = 0
                   ELSE b_pc' = "none" /\ b_result' = -ENOMEM
    /\ b_op' = "create"
    /\ b_i' = 0
    /\ b_err' = 0
    /\ b_fd' = -1
    /\ b_cancel_fd' = -1
    /\ b_ioctl' = 1
    /\ pdata' = NoPdata
    /\ pdata_live' = FALSE
    /\ oplog' = <<>>
    /\ probed' = FALSE
    /\ en_nb' = 0
    /\ en_arg' = FALSE
    /\ UNCHANGED <<open_fds, buf_enable, buf_length, buf_watermark, chn_en, dev_chans,
                   hw_mode>>

\* lines 1448-1452
cb_eventfd ==
    /\ b_pc = "cb_eventfd"
    /\ \E ok \in BOOLEAN :
          IF ok
          THEN /\ b_cancel_fd' = NewFd(open_fds)
               /\ open_fds' = open_fds \cup {NewFd(open_fds)}
               /\ oplog' = Append(oplog, Ev("eventfd", NewFd(open_fds), "", 0, 0, 0))
               /\ b_pc' = "cb_open"
               /\ UNCHANGED <<b_err, b_result>>
          ELSE /\ b_err' = -ENOMEM
               /\ b_result' = -ENOMEM
               /\ oplog' = Append(oplog, Ev("eventfd", -1, "", 0, 0, -ENOMEM))
               /\ b_pc' = "none"
               /\ UNCHANGED <<b_cancel_fd, open_fds>>
    /\ UNCHANGED <<b_op, b_idx, b_mask, b_maskreq, b_i, b_fd, b_ioctl, pdata, pdata_live,
                   buf_enable, buf_length, buf_watermark, chn_en, dev_chans, hw_mode,
                   en_nb, en_arg, probed>>

\* lines 1454-1459
cb_open ==
    /\ b_pc = "cb_open"
    /\ \E r \in {0, -ENOENT, -EACCES} :
          IF r = 0
          THEN /\ b_fd' = NewFd(open_fds)
               /\ open_fds' = open_fds \cup {NewFd(open_fds)}
               /\ oplog' = Append(oplog, Ev("open", NewFd(open_fds), "", 0, 0, 0))
               /\ b_pc' = "cb_ioctl"
               /\ UNCHANGED b_err
          ELSE /\ b_err' = r
               /\ oplog' = Append(oplog, Ev("open", -1, "", 0, 0, r))
               /\ b_pc' = "cb_err_close_eventfd"
               /\ UNCHANGED <<b_fd, open_fds>>
    /\ UNCHANGED <<b_op, b_idx, b_mask, b_maskreq, b_i, b_cancel_fd, b_ioctl, b_result,
                   pdata, pdata_live, buf_enable, buf_length, buf_watermark, chn_en,
                   dev_chans, hw_mode, en_nb, en_arg, probed>>

\* lines 1461-1472: the ioctl for the per-index descriptor, and what follows
cb_ioctl ==
    /\ b_pc = "cb_ioctl"
    /\ \E r \in {0, -EINVAL} :
          LET todo == after_ioctl(r, b_idx)
              new_fd == NewFd(open_fds)
              fd == IF todo = "replace" THEN new_fd ELSE b_fd
          IN  /\ b_ioctl' = r
              /\ b_err' = r
              /\ b_fd' = fd
              /\ open_fds' = IF todo = "replace" THEN (open_fds \cup {new_fd}) \ {b_fd}
                             ELSE open_fds
              /\ oplog' = IF todo = "replace"
                          THEN oplog \o <<Ev("ioctl", new_fd, "", 0, 0, r),
                                          Ev("close", b_fd, "", 0, 0, 0)>>
                          ELSE Append(oplog, Ev("ioctl", -1, "", 0, 0, r))
              /\ pdata' = IF todo = "fail" THEN pdata
                          ELSE [pdata EXCEPT !.fd = fd, !.cancel_fd = b_cancel_fd,
                                             !.idx = b_idx,
                                             !.multi_buffer = (todo = "replace")]
              /\ b_pc' = IF todo = "fail" THEN "cb_err_close" ELSE "cb_disable"
    /\ UNCHANGED <<b_op, b_idx, b_mask, b_maskreq, b_i, b_cancel_fd, b_result, pdata_live,
                   buf_enable, buf_length, buf_watermark, chn_en, dev_chans, hw_mode,
                   en_nb, en_arg, probed>>

\* lines 1474-1477: local_do_enable_buffer(pdata, false)
cb_disable ==
    /\ b_pc = "cb_disable"
    /\ \E o \in SysfsOutcomes :
          LET r == local_write_dev_attr(pdata.idx, o)
          IN  /\ oplog' = Append(oplog, Ev("write", -1, "enable", 0, do_enable_value(FALSE), r))
              /\ b_err' = r
              /\ buf_enable' = IF r < 0 THEN buf_enable ELSE do_enable_value(FALSE)
              /\ b_pc' = IF r < 0 THEN "cb_err_close" ELSE "cb_chn_off"
    /\ b_i' = 1
    /\ UNCHANGED <<b_op, b_idx, b_mask, b_maskreq, b_fd, b_cancel_fd, b_ioctl, b_result,
                   pdata, pdata_live, open_fds, buf_length, buf_watermark, chn_en,
                   dev_chans, hw_mode, en_nb, en_arg, probed>>

\* the loop index moves on; after the last channel the next phase starts
NextChan(next_pc) ==
    IF b_i < Len(dev_chans) THEN b_i' = b_i + 1 /\ b_pc' = b_pc
                            ELSE b_i' = 1 /\ b_pc' = next_pc

\* lines 564-581: channel_write_state(chn, idx, en) for channel c
channel_write_state(c, idx, o) ==
    IF ~dev_chans[c].has_en THEN -EINVAL ELSE local_write_dev_attr(idx, o)

\* lines 1479-1487: every channel with an index is disabled
cb_chn_off ==
    /\ b_pc = "cb_chn_off"
    /\ IF dev_chans[b_i].index >= 0
       THEN \E o \in SysfsOutcomes :
               LET r == channel_write_state(b_i, b_idx, o)
               IN  /\ oplog' = Append(oplog, Ev("write", -1, "chn_en", b_i, 0, r))
                   /\ b_err' = r
                   /\ IF r < 0
                      THEN b_pc' = "cb_err_close" /\ UNCHANGED <<b_i, chn_en>>
                      ELSE chn_en' = [chn_en EXCEPT ![b_i] = FALSE] /\ NextChan("cb_chn_on")
       ELSE NextChan("cb_chn_on") /\ UNCHANGED <<oplog, b_err, chn_en>>
    /\ UNCHANGED <<b_op, b_idx, b_mask, b_maskreq, b_fd, b_cancel_fd, b_ioctl, b_result,
                   pdata, pdata_live, open_fds, buf_enable, buf_length, buf_watermark,
                   dev_chans, hw_mode, en_nb, en_arg, probed>>

\* lines 1489-1497: the channels of the mask are enabled
cb_chn_on ==
    /\ b_pc = "cb_chn_on"
    /\ IF dev_chans[b_i].index >= 0 /\ b_i \in b_mask
       THEN \E o \in SysfsOutcomes :
               LET r == channel_write_state(b_i, b_idx, o)
               IN  /\ oplog' = Append(oplog, Ev("write", -1, "chn_en", b_i, 1, r))
                   /\ b_err' = r
                   /\ IF r < 0
                      THEN b_pc' = "cb_err_close" /\ UNCHANGED <<b_i, chn_en>>
                      ELSE chn_en' = HwEnable(chn_en, b_i) /\ NextChan("cb_chn_read")
       ELSE NextChan("cb_chn_read") /\ UNCHANGED <<oplog, b_err, chn_en>>
    /\ UNCHANGED <<b_op, b_idx, b_mask, b_maskreq, b_fd, b_cancel_fd, b_ioctl, b_result,
                   pdata, pdata_live, open_fds, buf_enable, buf_length, buf_watermark,
                   dev_chans, hw_mode, en_nb, en_arg, probed>>

\* lines 583-595: channel_read_state(chn, idx): an error, or buf[0] == '1'
channel_read_state(c, idx, o) ==
    IF local_read_dev_attr(idx, o) < 0 THEN local_read_dev_attr(idx, o)
    ELSE IF chn_en[c] THEN 1 ELSE 0

\* lines 1499-1513: the mask is updated from the hardware; the buffer is returned
cb_chn_read ==
    /\ b_pc = "cb_chn_read"
    /\ IF dev_chans[b_i].index >= 0
       THEN \E o \in SysfsOutcomes :
               LET r == channel_read_state(b_i, b_idx, o)
               IN  /\ oplog' = Append(oplog, Ev("read", -1, "chn_en", b_i, 0, r))
                   /\ b_err' = r
                   /\ IF r < 0
                      THEN b_pc' = "cb_err_close" /\ UNCHANGED <<b_i, b_mask>>
                      ELSE /\ b_mask' = IF r > 0 THEN b_mask \cup {b_i} ELSE b_mask
                           /\ NextChan("ready")
       ELSE NextChan("ready") /\ UNCHANGED <<oplog, b_err, b_mask>>
    /\ pdata_live' = (b_pc' = "ready")
    /\ b_result' = 0
    /\ UNCHANGED <<b_op, b_idx, b_maskreq, b_fd, b_cancel_fd, b_ioctl, pdata, open_fds,
                   buf_enable, buf_length, buf_watermark, chn_en, dev_chans, hw_mode,
                   en_nb, en_arg, probed>>

\* a mutant: the label err_close does not close the descriptor
cb_err_close_NoClose ==
    /\ b_pc = "cb_err_close"
    /\ b_pc' = "cb_err_close_eventfd"
    /\ UNCHANGED <<b_op, b_idx, b_mask, b_maskreq, b_i, b_err, b_fd, b_cancel_fd, b_ioctl,
                   b_result, pdata, pdata_live, buf_enable, buf_length, buf_watermark,
                   chn_en, dev_chans, hw_mode, en_nb, en_arg, probed, oplog, open_fds>>

\* lines 1515-1516
cb_err_close ==
    /\ b_pc = "cb_err_close"
    /\ oplog' = Append(oplog, Ev("close", b_fd, "", 0, 0, 0))
    /\ open_fds' = open_fds \ {b_fd}
    /\ b_pc' = "cb_err_close_eventfd"
    /\ UNCHANGED <<b_op, b_idx, b_mask, b_maskreq, b_i, b_err, b_fd, b_cancel_fd, b_ioctl,
                   b_result, pdata, pdata_live, buf_enable, buf_length, buf_watermark,
                   chn_en, dev_chans, hw_mode, en_nb, en_arg, probed>>

\* lines 1517-1523
cb_err_close_eventfd ==
    /\ b_pc = "cb_err_close_eventfd"
    /\ oplog' = Append(oplog, Ev("close", b_cancel_fd, "", 0, 0, 0))
    /\ open_fds' = open_fds \ {b_cancel_fd}
    /\ b_result' = b_err
    /\ pdata' = NoPdata
    /\ b_pc' = "none"
    /\ UNCHANGED <<b_op, b_idx, b_mask, b_maskreq, b_i, b_err, b_fd, b_cancel_fd, b_ioctl,
                   pdata_live, buf_enable, buf_length, buf_watermark, chn_en, dev_chans,
                   hw_mode, en_nb, en_arg, probed>>

\* ---------------------------------------------------- the block backends

\* local_create_dmabuf and local_create_mmap_block (not in local.c) find out
\* what the kernel supports and set the two flags of the buffer
backend_probe ==
    /\ b_pc = "ready"
    /\ ~probed
    /\ probed' = TRUE
    /\ b_op' = "probe"
    /\ \E d \in BOOLEAN, m \in BOOLEAN :
          pdata' = [pdata EXCEPT !.dmabuf_supported = d, !.mmap_supported = m]
    /\ UNCHANGED <<b_pc, b_idx, b_mask, b_maskreq, b_i, b_err, b_fd, b_cancel_fd,
                   b_ioctl, b_result, pdata_live, open_fds, oplog, buf_enable, buf_length,
                   buf_watermark, chn_en, dev_chans, hw_mode, en_nb, en_arg>>

\* ---------------------------------------------------- local_enable_buffer

\* lines 306-314: the call and the capability check
en_begin ==
    /\ b_pc = "ready"
    /\ \E nb \in SampleCounts, enable \in BOOLEAN :
          /\ en_nb' = nb
          /\ en_arg' = enable
          /\ IF ~enable_check(pdata.dmabuf_supported, pdata.mmap_supported, nb)
             THEN b_pc' = "ready" /\ b_result' = -EINVAL
             ELSE b_pc' = (IF nb # 0 THEN "en_length" ELSE "en_enable") /\ b_result' = 0
    /\ b_op' = "enable"
    /\ oplog' = <<>>
    /\ UNCHANGED <<b_idx, b_mask, b_maskreq, b_i, b_err, b_fd, b_cancel_fd, b_ioctl, pdata,
                   pdata_live, open_fds, buf_enable, buf_length, buf_watermark, chn_en,
                   dev_chans, hw_mode, probed>>

\* lines 261-275 and 315-317: local_set_buffer_size
en_length ==
    /\ b_pc = "en_length"
    /\ \E o \in SysfsOutcomes :
          LET r == local_write_dev_attr(pdata.idx, o)
          IN  /\ oplog' = Append(oplog, Ev("write", -1, "length", 0, en_nb, r))
              /\ buf_length' = IF r < 0 THEN buf_length ELSE en_nb
              /\ b_result' = IF r < 0 THEN r ELSE 0
              /\ b_pc' = IF r < 0 THEN "ready" ELSE "en_watermark"
    /\ UNCHANGED <<b_op, b_idx, b_mask, b_maskreq, b_i, b_err, b_fd, b_cancel_fd, b_ioctl,
                   pdata, pdata_live, open_fds, buf_enable, buf_watermark, chn_en,
                   dev_chans, hw_mode, en_nb, en_arg, probed>>

\* a mutant: every failure of the watermark write is returned
local_set_watermark_Strict(r) == IF r < 0 THEN r ELSE 0

\* lines 277-291: the result of local_set_watermark for a write result r
local_set_watermark(r) == IF r < 0 /\ r # -ENOENT /\ r # -EACCES THEN r ELSE 0

\* lines 319-321
en_watermark ==
    /\ b_pc = "en_watermark"
    /\ \E o \in SysfsOutcomes :
          LET r == local_write_dev_attr(pdata.idx, o)
              ret == local_set_watermark(r)
          IN  /\ oplog' = Append(oplog, Ev("write", -1, "watermark", 0, en_nb, r))
              /\ buf_watermark' = IF r < 0 THEN buf_watermark ELSE en_nb
              /\ b_result' = ret
              /\ b_pc' = IF ret # 0 THEN "ready" ELSE "en_enable"
    /\ UNCHANGED <<b_op, b_idx, b_mask, b_maskreq, b_i, b_err, b_fd, b_cancel_fd, b_ioctl,
                   pdata, pdata_live, open_fds, buf_enable, buf_length, chn_en, dev_chans,
                   hw_mode, en_nb, en_arg, probed>>

\* line 324: local_do_enable_buffer(pdata, true), whatever the enable argument
en_enable ==
    /\ b_pc = "en_enable"
    /\ \E o \in SysfsOutcomes :
          LET r == local_write_dev_attr(pdata.idx, o)
          IN  /\ oplog' = Append(oplog, Ev("write", -1, "enable", 0, do_enable_value(TRUE), r))
              /\ buf_enable' = IF r < 0 THEN buf_enable ELSE do_enable_value(TRUE)
              /\ b_result' = IF r < 0 THEN r ELSE 0
    /\ b_pc' = "ready"
    /\ UNCHANGED <<b_op, b_idx, b_mask, b_maskreq, b_i, b_err, b_fd, b_cancel_fd, b_ioctl,
                   pdata, pdata_live, open_fds, buf_length, buf_watermark, chn_en,
                   dev_chans, hw_mode, en_nb, en_arg, probed>>

\* ---------------------------------------------------- local_free_buffer

\* line 1526: the call
fr_begin ==
    /\ b_pc = "ready"
    /\ b_pc' = "free"
    /\ b_op' = "free"
    /\ b_i' = 1
    /\ oplog' = <<>>
    /\ en_nb' = 0
    /\ en_arg' = FALSE
    /\ UNCHANGED <<b_idx, b_mask, b_maskreq, b_err, b_fd, b_cancel_fd, b_ioctl, b_result,
                   pdata, pdata_live, open_fds, buf_enable, buf_length, buf_watermark,
                   chn_en, dev_chans, hw_mode, probed>>

\* lines 1528-1533: the next system call of local_free_buffer; after the last
\* one pdata is freed
fr_step ==
    /\ b_pc = "free"
    /\ IF b_i > Len(local_free_buffer_steps)
       THEN /\ b_pc' = "none"
            /\ pdata_live' = FALSE
            /\ UNCHANGED <<b_i, oplog, open_fds, buf_enable>>
       ELSE /\ b_i' = b_i + 1
            /\ UNCHANGED <<b_pc, pdata_live>>
            /\ IF local_free_buffer_steps[b_i] = "close_fd"
               THEN /\ oplog' = Append(oplog, Ev("close", pdata.fd, "", 0, 0, 0))
                    /\ open_fds' = open_fds \ {pdata.fd}
                    /\ UNCHANGED buf_enable
               ELSE IF local_free_buffer_steps[b_i] = "close_cancel_fd"
               THEN /\ oplog' = Append(oplog, Ev("close", pdata.cancel_fd, "", 0, 0, 0))
                    /\ open_fds' = open_fds \ {pdata.cancel_fd}
                    /\ UNCHANGED buf_enable
               ELSE \E o \in SysfsOutcomes :
                       LET r == local_write_dev_attr(pdata.idx, o)
                       IN  /\ oplog' = Append(oplog, Ev("write", -1, "enable", 0,
                                                        do_enable_value(FALSE), r))
                           /\ buf_enable' = IF r < 0 THEN buf_enable
                                            ELSE do_enable_value(FALSE)
                           /\ UNCHANGED open_fds
    /\ UNCHANGED <<b_op, b_idx, b_mask, b_maskreq, b_err, b_fd, b_cancel_fd, b_ioctl,
                   b_result, pdata, buf_length, buf_watermark, chn_en, dev_chans, hw_mode,
                   en_nb, en_arg, probed>>

(***************************************************************************)
(*            local_create_context, foreach_in_dir, create_device          *)
(*                                                                         *)
(* The context is built from the device directories of                     *)
(* /sys/bus/iio/devices and, when built WITH_HWMON, of /sys/class/hwmon.   *)
(* A directory is its opendir result and its entries in readdir order; an  *)
(* entry is a device directory ("dev") or something the scan skips (a file *)
(* or a name starting with a dot, "other").  Whether the construction of a *)
(* device succeeds is the environment's choice.                            *)
(***************************************************************************)
EntryKinds == {"dev", "other"}

RECURSIVE EntrySeqs(_)
EntrySeqs(n) ==
    IF n = 0 THEN {<<>>}
    ELSE EntrySeqs(n - 1) \cup
         {Append(s, k) : s \in {t \in EntrySeqs(n - 1) : Len(t) = n - 1}, k \in EntryKinds}

AbsentDir == [open |-> -ENOENT, entries |-> <<>>]

SysDirs == {AbsentDir} \cup {[open |-> 0, entries |-> s] : s \in EntrySeqs(MaxDevs)}

\* where create_device fails, and with what: nowhere; in the allocations; in
\* the scan of the device's files; when the device is added to the context
DeviceFates ==
    {[step |-> "none", err |-> 0], [step |-> "alloc", err |-> -ENOMEM],
     [step |-> "add", err |-> -ENOMEM]}
    \cup {[step |-> "scan", err |-> e] : e \in {-ENOMEM, -ENOENT, -EIO}}

\* lines 1306-1371: the device is added to the context only when no step failed
create_device(fate) == fate.err

\* a mutant: a device that fails without running out of memory is passed over
foreach_in_dir_after_Isolating(ret) == IF ret = -ENOMEM THEN "out_close_dir" ELSE "loop"

\* lines 1261-1262: what foreach_in_dir does with the callback's result
foreach_in_dir_after(ret) == IF ret < 0 THEN "out_close_dir" ELSE "loop"

\* lines 1737-1739: ret after the scan of the IIO devices
after_iio_scan(ret, hwmon) == IF hwmon /\ ret = -ENOENT THEN 0 ELSE ret

\* lines 1746-1747: ret after the scan of the hwmon devices
after_hwmon_scan(ret, no_iio) == IF ret = -ENOENT /\ ~no_iio THEN 0 ELSE ret

CtxIdle ==
    /\ cx_pc = "idle"
    /\ with_hwmon = FALSE
    /\ iio_dir = AbsentDir
    /\ hwmon_dir = AbsentDir
    /\ cx_dir = "iio"
    /\ cx_i = 0
    /\ cx_ret = 0
    /\ cx_no_iio = FALSE
    /\ cx_result = 0
    /\ ctx_devs = {}
    /\ cx_visited = {}
    /\ cx_failed = {}

\* before local_create_context: the build and the two directories are arbitrary
InitCtx ==
    /\ cx_pc = "idle"
    /\ with_hwmon \in BOOLEAN
    /\ iio_dir \in SysDirs
    /\ hwmon_dir \in IF with_hwmon THEN SysDirs ELSE {AbsentDir}
    /\ cx_dir = "iio"
    /\ cx_i = 0
    /\ cx_ret = 0
    /\ cx_no_iio = FALSE
    /\ cx_result = 0
    /\ ctx_devs = {}
    /\ cx_visited = {}
    /\ cx_failed = {}

CurDir == IF cx_dir = "iio" THEN iio_dir ELSE hwmon_dir

\* lines 1725-1733: the description and the empty context are allocated
local_create_context ==
    /\ cx_pc = "idle"
    /\ \E ok \in BOOLEAN :
          IF ok THEN cx_pc' = "opendir" /\ cx_result' = 0
                ELSE cx_pc' = "done" /\ cx_result' = -ENOMEM
    /\ UNCHANGED <<with_hwmon, iio_dir, hwmon_dir, cx_dir, cx_i, cx_ret, cx_no_iio,
                   ctx_devs, cx_visited, cx_failed>>

\* lines 1227-1229: opendir
scan_opendir ==
    /\ cx_pc = "opendir"
    /\ cx_ret' = CurDir.open
    /\ cx_i' = 1
    /\ cx_pc' = IF CurDir.open < 0 THEN "scanned" ELSE "readdir"
    /\ UNCHANGED <<with_hwmon, iio_dir, hwmon_dir, cx_dir, cx_no_iio, cx_result,
                   ctx_devs, cx_visited, cx_failed>>

\* lines 1231-1243: the directory is exhausted, or readdir or stat fails
scan_end ==
    /\ cx_pc = "readdir"
    /\ \/ cx_i > Len(CurDir.entries) /\ UNCHANGED cx_ret
       \/ cx_i <= Len(CurDir.entries) /\ cx_ret' \in {-EIO, -EACCES}
    /\ cx_pc' = "scanned"
    /\ UNCHANGED <<with_hwmon, iio_dir, hwmon_dir, cx_dir, cx_i, cx_no_iio, cx_result,
                   ctx_devs, cx_visited, cx_failed>>

\* lines 1254-1259: an entry that is no device directory is skipped
scan_skip ==
    /\ cx_pc = "readdir"
    /\ cx_i <= Len(CurDir.entries)
    /\ CurDir.entries[cx_i] # "dev"
    /\ cx_i' = cx_i + 1
    /\ UNCHANGED <<cx_pc, with_hwmon, iio_dir, hwmon_dir, cx_dir, cx_ret, cx_no_iio,
                   cx_result, ctx_devs, cx_visited, cx_failed>>

\* lines 1254-1262: create_device is called for a device directory
scan_device ==
    /\ cx_pc = "readdir"
    /\ cx_i <= Len(CurDir.entries)
    /\ CurDir.entries[cx_i] = "dev"
    /\ \E fate \in DeviceFates :
          LET ret == create_device(fate)
              d == <<cx_dir, cx_i>>
          IN  /\ cx_ret' = ret
              /\ cx_visited' = cx_visited \cup {d}
              /\ ctx_devs' = IF ret = 0 THEN ctx_devs \cup {d} ELSE ctx_devs
              /\ cx_failed' = IF ret = 0 THEN cx_failed
                              ELSE cx_failed \cup {[dev |-> d, err |-> ret]}
              /\ cx_pc' = IF foreach_in_dir_after(ret) = "loop" THEN "readdir" ELSE "scanned"
    /\ cx_i' = cx_i + 1
    /\ UNCHANGED <<with_hwmon, iio_dir, hwmon_dir, cx_dir, cx_no_iio, cx_result>>

\* lines 1735-1750: local_create_context looks at the result of a scan
scan_result ==
    /\ cx_pc = "scanned"
    /\ LET ret == IF cx_dir = "iio" THEN after_iio_scan(cx_ret, with_hwmon)
                  ELSE after_hwmon_scan(cx_ret, cx_no_iio)
       IN  /\ cx_no_iio' = IF cx_dir = "iio" THEN (cx_ret = -ENOENT) ELSE cx_no_iio
           /\ cx_ret' = ret
           /\ IF ret < 0
              THEN cx_pc' = "done" /\ cx_result' = ret /\ ctx_devs' = {}
                   /\ UNCHANGED cx_dir
              ELSE /\ UNCHANGED <<cx_result, ctx_devs>>
                   /\ IF cx_dir = "iio" /\ with_hwmon
                      THEN cx_dir' = "hwmon" /\ cx_pc' = "opendir"
                      ELSE cx_pc' = "finish" /\ UNCHANGED cx_dir
    /\ UNCHANGED <<with_hwmon, iio_dir, hwmon_dir, cx_i, cx_visited, cx_failed>>

\* lines 1752-1783: the devices are sorted, the context attributes are added
\* and the context is initialised: this fails without memory only
context_finish ==
    /\ cx_pc = "finish"
    /\ \E ok \in BOOLEAN :
          IF ok THEN cx_result' = 0 /\ UNCHANGED ctx_devs
                ELSE cx_result' = -ENOMEM /\ ctx_devs' = {}
    /\ cx_pc' = "done"
    /\ UNCHANGED <<with_hwmon, iio_dir, hwmon_dir, cx_dir, cx_i, cx_ret, cx_no_iio,
                   cx_visited, cx_failed>>

(***************************************************************************)
(*   local_create_block, local_enqueue_block, local_dequeue_block,         *)
(*   local_free_block                                                      *)
(*                                                                         *)
(* The two block backends are compiled in or not (WITH_LOCAL_DMABUF_API,   *)
(* WITH_LOCAL_MMAP_API).  What a backend returns is the kernel's choice;   *)
(* a backend that creates a block marks the buffer as supporting it.       *)
(***************************************************************************)
\* what local_create_dmabuf and local_create_mmap_block return: 0 for a block
BackendResults == {0, -ENOSYS, -ENOMEM, -EINVAL}

\* a mutant: every failure of a backend falls through to the next one
after_backend_AnyError(ret) == IF ret >= 0 THEN "return" ELSE "next"

\* lines 1546-1547 and 1554-1555: what local_create_block does with a result
after_backend(ret) == IF ret # -ENOSYS THEN "return" ELSE "next"

\* lines 1573-1579 and 1584-1590: the backend an enqueue or dequeue goes to
dispatch_first(flags) ==
    IF with_dmabuf /\ flags.dmabuf_supported THEN <<"dmabuf">>
    ELSE IF with_mmap /\ flags.mmap_supported THEN <<"mmap">>
    ELSE <<>>

\* lines 1563-1567: the backends local_free_block releases the block through
local_free_block_calls(flags) ==
    (IF with_dmabuf /\ flags.dmabuf_supported THEN <<"dmabuf">> ELSE <<>>)
    \o (IF with_mmap /\ flags.mmap_supported THEN <<"mmap">> ELSE <<>>)

BlkIdle ==
    /\ with_dmabuf = FALSE
    /\ with_mmap = FALSE
    /\ blk_flags = [dmabuf_supported |-> FALSE, mmap_supported |-> FALSE]
    /\ blk_pc = "idle"
    /\ blk_tried = <<>>
    /\ blk_ret = 1
    /\ blk_blocks = <<>>
    /\ blk_target = "none"
    /\ blk_op = "none"
    /\ blk_disp = <<>>
    /\ blk_op_ret = 0

\* a buffer fresh from local_create_buffer, in any build
InitBlk ==
    /\ with_dmabuf \in BOOLEAN
    /\ with_mmap \in BOOLEAN
    /\ blk_flags = [dmabuf_supported |-> FALSE, mmap_supported |-> FALSE]
    /\ blk_pc = "idle"
    /\ blk_tried = <<>>
    /\ blk_ret = 1
    /\ blk_blocks = <<>>
    /\ blk_target = "none"
    /\ blk_op = "none"
    /\ blk_disp = <<>>
    /\ blk_op_ret = 0

\* where local_create_block goes after the dma-buf backend was passed
AfterDmabuf == IF with_mmap THEN "mmap" ELSE "done"

\* lines 1536-1542: the call
local_create_block ==
    /\ blk_pc \in {"idle", "done"}
    /\ Len(blk_blocks) < MaxBlocks
    /\ blk_tried' = <<>>
    /\ blk_op' = "create"
    /\ blk_disp' = <<>>
    /\ blk_pc' = IF with_dmabuf THEN "dmabuf" ELSE AfterDmabuf
    /\ blk_ret' = IF ~with_dmabuf /\ ~with_mmap THEN -ENOSYS ELSE 1
    /\ UNCHANGED <<with_dmabuf, with_mmap, blk_flags, blk_blocks, blk_target, blk_op_ret>>

\* lines 1542-1548: local_create_dmabuf
blk_dmabuf ==
    /\ blk_pc = "dmabuf"
    /\ \E r \in BackendResults :
          /\ blk_tried' = Append(blk_tried, [backend |-> "dmabuf", ret |-> r])
          /\ IF after_backend(r) = "return"
             THEN blk_pc' = "done" /\ blk_ret' = r
             ELSE blk_pc' = AfterDmabuf
                  /\ blk_ret' = (IF AfterDmabuf = "done" THEN -ENOSYS ELSE blk_ret)
          /\ blk_blocks' = IF r = 0 THEN Append(blk_blocks, "dmabuf") ELSE blk_blocks
          /\ blk_flags' = IF r = 0 THEN [blk_flags EXCEPT !.dmabuf_supported = TRUE]
                          ELSE blk_flags
    /\ UNCHANGED <<with_dmabuf, with_mmap, blk_op, blk_disp, blk_op_ret, blk_target>>

\* lines 1550-1558: local_create_mmap_block
blk_mmap ==
    /\ blk_pc = "mmap"
    /\ \E r \in BackendResults :
          /\ blk_tried' = Append(blk_tried, [backend |-> "mmap", ret |-> r])
          /\ blk_ret' = IF after_backend(r) = "return" THEN r ELSE -ENOSYS
          /\ blk_blocks' = IF r = 0 THEN Append(blk_blocks, "mmap") ELSE blk_blocks
          /\ blk_flags' = IF r = 0 THEN [blk_flags EXCEPT !.mmap_supported = TRUE]
                          ELSE blk_flags
    /\ blk_pc' = "done"
    /\ UNCHANGED <<with_dmabuf, with_mmap, blk_op, blk_disp, blk_op_ret, blk_target>>

\* lines 1570-1580
local_enqueue_block ==
    /\ blk_pc \in {"idle", "done"}
    /\ \E k \in DOMAIN blk_blocks : blk_target' = blk_blocks[k]
    /\ blk_op' = "enqueue"
    /\ blk_disp' = dispatch_first(blk_flags)
    /\ blk_op_ret' \in IF dispatch_first(blk_flags) = <<>> THEN {-ENOSYS} ELSE {0, -EINVAL}
    /\ UNCHANGED <<with_dmabuf, with_mmap, blk_flags, blk_pc, blk_tried, blk_ret, blk_blocks>>

\* lines 1582-1591
local_dequeue_block ==
    /\ blk_pc \in {"idle", "done"}
    /\ \E k \in DOMAIN blk_blocks : blk_target' = blk_blocks[k]
    /\ blk_op' = "dequeue"
    /\ blk_disp' = dispatch_first(blk_flags)
    /\ blk_op_ret' \in IF dispatch_first(blk_flags) = <<>> THEN {-ENOSYS} ELSE {0, -EINVAL}
    /\ UNCHANGED <<with_dmabuf, with_mmap, blk_flags, blk_pc, blk_tried, blk_ret, blk_blocks>>

\* lines 1561-1568
local_free_block ==
    /\ blk_pc \in {"idle", "done"}
    /\ \E k \in DOMAIN blk_blocks :
          /\ blk_target' = blk_blocks[k]
          /\ blk_blocks' = SubSeq(blk_blocks, 1, k - 1) \o SubSeq(blk_blocks, k + 1, Len(blk_blocks))
    /\ blk_op' = "free"
    /\ blk_disp' = local_free_block_calls(blk_flags)
    /\ blk_op_ret' = 0
    /\ UNCHANGED <<with_dmabuf, with_mmap, blk_flags, blk_pc, blk_tried, blk_ret>>

(***************************************************************************)
(*        handle_protected_scan_element_attr: the "type" attribute         *)
(*                                                                         *)
(* A string is the sequence of its characters.  iio_sscanf is sscanf: it   *)
(* goes through the directives of its format and stops at the first one    *)
(* that does not match, leaving the remaining arguments as they were.      *)
(***************************************************************************)
DigitChars == <<"0", "1", "2", "3", "4", "5", "6", "7", "8", "9">>

IsDigit(c) == \E k \in DOMAIN DigitChars : DigitChars[k] = c

DigitVal(c) == (CHOOSE k \in DOMAIN DigitChars : DigitChars[k] = c) - 1

IsSpace(c) == c \in {" ", "\n", "\t"}

\* sscanf, %u: white space is skipped
RECURSIVE SkipSpace(_, _)
SkipSpace(buf, pos) ==
    IF pos <= Len(buf) /\ IsSpace(buf[pos]) THEN SkipSpace(buf, pos + 1) ELSE pos

\* sscanf, %u: the digits are read, the value kept on the width of unsigned int
RECURSIVE ReadDigits(_, _, _)
ReadDigits(buf, pos, acc) ==
    IF pos <= Len(buf) /\ IsDigit(buf[pos])
    THEN ReadDigits(buf, pos + 1, ToUInt(acc * 10 + DigitVal(buf[pos])))
    ELSE [val |-> acc, pos |-> pos]

\* sscanf, %u: an optional sign and at least one digit
ScanUInt(buf, pos) ==
    LET p1 == SkipSpace(buf, pos)
        neg == p1 <= Len(buf) /\ buf[p1] = "-"
        p2 == IF p1 <= Len(buf) /\ buf[p1] \in {"+", "-"} THEN p1 + 1 ELSE p1
        r == ReadDigits(buf, p2, 0)
    IN  [ok |-> r.pos > p2,
         val |-> IF neg THEN ToUInt(-r.val) ELSE r.val,
         pos |-> r.pos]

\* sscanf from directive fi of fmt and position pos of buf: the values assigned
RECURSIVE ScanFrom(_, _, _, _, _)
ScanFrom(fmt, fi, buf, pos, out) ==
    IF fi > Len(fmt) THEN out
    ELSE IF fmt[fi] = "%c"
    THEN IF pos > Len(buf) THEN out
         ELSE ScanFrom(fmt, fi + 1, buf, pos + 1, Append(out, [c |-> buf[pos], u |-> 0]))
    ELSE IF fmt[fi] = "%u"
    THEN IF ~ScanUInt(buf, pos).ok THEN out
         ELSE ScanFrom(fmt, fi + 1, buf, ScanUInt(buf, pos).pos,
                       Append(out, [c |-> "", u |-> ScanUInt(buf, pos).val]))
    ELSE IF pos <= Len(buf) /\ buf[pos] = fmt[fi]
    THEN ScanFrom(fmt, fi + 1, buf, pos + 1, out)
    ELSE out

iio_sscanf(buf, fmt) == ScanFrom(fmt, 1, buf, 1, <<>>)

\* line 803: "%ce:%c%u/%uX%u>>%u"
TypeFormatX == <<"%c", "e", ":", "%c", "%u", "/", "%u", "X", "%u", ">", ">", "%u">>

\* line 812: "%ce:%c%u/%u>>%u"
TypeFormat == <<"%c", "e", ":", "%c", "%u", "/", "%u", ">", ">", "%u">>

\* line 800: strchr(buf, 'X')
HasX(buf) == \E k \in DOMAIN buf : buf[k] = "X"

\* a mutant: only the upper-case signed marker defines the format fully
is_fully_defined_NoU(sign, bits, length) == sign = "S" \/ bits = length

\* lines 823-825
is_fully_defined(sign, bits, length) == sign = "S" \/ sign = "U" \/ bits = length

\* zalloc in create_channel: the format before any attribute is parsed
ZeroFormat == [is_be |-> FALSE, is_signed |-> FALSE, is_fully_defined |-> FALSE,
               bits |-> 0, length |-> 0, repeat |-> 0, shift |-> 0]

\* the decimal digits of n
RECURSIVE Decimal(_)
Decimal(n) == IF n < 10 THEN <<DigitChars[n + 1]>>
              ELSE Append(Decimal(n \div 10), DigitChars[(n % 10) + 1])

\* the numbers that appear in the type strings tried
TypeNumbers == {0, 4, 12, 16}

\* the type strings tried: well-formed ones, and ones cut short
TypeCuts == {"none", "after_X", "after_slash", "after_colon"}

\* the type string the kernel shows for the given parts; repeat -1: no X group
TypeString(g) ==
    LET head == <<g.endian, "e", ":">>
        upto_slash == head \o <<g.sign>> \o Decimal(g.bits) \o <<"/">>
        upto_len == upto_slash \o Decimal(g.length)
        full == upto_len
                \o (IF g.repeat >= 0 THEN <<"X">> \o Decimal(g.repeat) ELSE <<>>)
                \o <<">", ">">> \o Decimal(g.shift)
    IN  IF g.cut = "none" THEN full
        ELSE IF g.cut = "after_X" THEN upto_len \o <<"X">>
        ELSE IF g.cut = "after_slash" THEN upto_slash
        ELSE head

FmtIdle ==
    /\ ty_pc = "idle"
    /\ ty_given = [endian |-> "l", sign |-> "s", bits |-> 0, length |-> 0, repeat |-> -1,
                   shift |-> 0, cut |-> "none"]
    /\ ty_buf = <<>>
    /\ ty_n = 0
    /\ chn_format = ZeroFormat

\* a channel fresh from create_channel, and the content of its type file
InitFmt ==
    /\ ty_pc = "idle"
    /\ ty_given \in [endian : {"b", "l"}, sign : {"s", "S", "u", "U"}, bits : TypeNumbers,
                     length : TypeNumbers, repeat : {-1} \cup TypeNumbers,
                     shift : TypeNumbers, cut : TypeCuts]
    /\ ty_given.cut # "none" => ty_given.shift = 0
    /\ ty_given.cut \in {"after_slash", "after_colon"} => ty_given.repeat = -1
    /\ ty_given.cut = "after_colon" => ty_given.bits = 0 /\ ty_given.length = 0
    /\ ty_buf = TypeString(ty_given)
    /\ ty_n = 0
    /\ chn_format = ZeroFormat

\* lines 793-794: the type file cannot be read; nothing is parsed
type_unreadable ==
    /\ ty_pc = "idle"
    /\ ty_pc' = "unread"
    /\ UNCHANGED <<ty_given, ty_buf, ty_n, chn_format>>

\* lines 795-827: the type file is read and parsed.  A char that sscanf did not
\* assign is uninitialised: its value is any char
handle_type ==
    /\ ty_pc = "idle"
    /\ LET out == iio_sscanf(ty_buf, IF HasX(ty_buf) THEN TypeFormatX ELSE TypeFormat)
           n == Len(out)
           bits == IF n >= 3 THEN out[3].u ELSE chn_format.bits
           length == IF n >= 4 THEN out[4].u ELSE chn_format.length
           repeat == IF HasX(ty_buf)
                     THEN (IF n >= 5 THEN out[5].u ELSE chn_format.repeat)
                     ELSE 1
           sh == IF HasX(ty_buf) THEN 6 ELSE 5
           shift == IF n >= sh THEN out[sh].u ELSE chn_format.shift
       IN  /\ ty_n' = n
           /\ \E endian \in (IF n >= 1 THEN {out[1].c} ELSE {"b", "l", "?"}),
                 sign \in (IF n >= 2 THEN {out[2].c} ELSE {"s", "S", "u", "U", "?"}) :
                 chn_format' = [is_be |-> endian = "b",
                                is_signed |-> (sign = "s" \/ sign = "S"),
                                is_fully_defined |-> is_fully_defined(sign, bits, length),
                                bits |-> bits, length |-> length, repeat |-> repeat,
                                shift |-> shift]
    /\ ty_pc' = "parsed"
    /\ UNCHANGED <<ty_given, ty_buf>>

(***************************************************************************)
(*   Attribute names: is_channel, get_channel_id, get_short_attr_name,     *)
(*   is_global_attr                                                        *)
(*                                                                         *)
(* A name is the sequence of its characters; the character after the last  *)
(* one is the terminator NUL.  The devices are IIO devices (not hwmon).    *)
(***************************************************************************)
NUL == ""

\* s[i] of the C string, 1-based: the terminator follows the last character
At(s, i) == IF i >= 1 /\ i <= Len(s) THEN s[i] ELSE NUL

\* strchr(s + from - 1, c): the index of the first c, 0 for NULL
StrChr(s, from, c) ==
    IF \E k \in from..Len(s) : s[k] = c
    THEN CHOOSE k \in from..Len(s) : s[k] = c /\ \A j \in from..(k - 1) : s[j] # c
    ELSE 0

\* strncmp(a + i - 1, b + j - 1, n) == 0
StrNEq(a, i, b, j, n) ==
    \A k \in 0..(n - 1) :
        (\A h \in 0..(k - 1) : At(a, i + h) # NUL) => At(a, i + k) = At(b, j + k)

\* strncmp(s + from - 1, p, strlen(p)) == 0
HasPrefixAt(s, from, p) == StrNEq(s, from, p, 1, Len(p))

W_in == <<"i", "n", "_">>

W_out == <<"o", "u", "t", "_">>

W_timestamp == <<"i", "n", "_", "t", "i", "m", "e", "s", "t", "a", "m", "p", "_">>

\* some of the modifier names of the table find_channel_modifier looks up
ModifierNames == {<<"x">>, <<"y">>, <<"i">>, <<"q">>}

\* find_channel_modifier(s + from - 1, &len): the length of the modifier name
\* that s continues with, followed by '_' or the end; 0 for IIO_NO_MOD
find_channel_modifier(s, from) ==
    LET hits == {m \in ModifierNames :
                    HasPrefixAt(s, from, m) /\ At(s, from + Len(m)) \in {NUL, "_"}}
    IN  IF hits = {} THEN 0 ELSE Len(CHOOSE m \in hits : TRUE)

\* a mutant: the strict test is applied in both modes
is_channel_AlwaysStrict(attr, strict) ==
    LET ptr == IF HasPrefixAt(attr, 1, W_in) THEN StrChr(attr, 4, "_")
               ELSE IF HasPrefixAt(attr, 1, W_out) THEN StrChr(attr, 5, "_")
               ELSE 0
    IN  IF HasPrefixAt(attr, 1, W_timestamp) THEN TRUE
        ELSE IF ptr = 0 THEN FALSE
        ELSE IF IsDigit(At(attr, ptr - 1)) THEN TRUE
        ELSE find_channel_modifier(attr, ptr + 1) # 0

\* lines 641-663, for a device that is no hwmon device
is_channel(attr, strict) ==
    LET ptr == IF HasPrefixAt(attr, 1, W_in) THEN StrChr(attr, 4, "_")
               ELSE IF HasPrefixAt(attr, 1, W_out) THEN StrChr(attr, 5, "_")
               ELSE 0
    IN  IF HasPrefixAt(attr, 1, W_timestamp) THEN TRUE
        ELSE IF ptr = 0 THEN FALSE
        ELSE IF ~strict THEN TRUE
        ELSE IF IsDigit(At(attr, ptr - 1)) THEN TRUE
        ELSE find_channel_modifier(attr, ptr + 1) # 0

\* a mutant: the modifier is not made part of the id
get_channel_id_NoModifier(attr) ==
    LET start == StrChr(attr, 1, "_") + 1
        ptr == StrChr(attr, start, "_")
    IN  SubSeq(attr, start, ptr - 1)

\* lines 665-690, for a device that is no hwmon device and a name that has an
\* underscore after its prefix
get_channel_id(attr) ==
    LET start == StrChr(attr, 1, "_") + 1
        ptr == StrChr(attr, start, "_")
        len == find_channel_modifier(attr, ptr + 1)
        end == IF len # 0 THEN ptr + len + 1 ELSE ptr
    IN  SubSeq(attr, start, end - 1)

\* lines 692-716, for a device that is no hwmon device; has_name: chn->name is set
get_short_attr_name(has_name, name, attr) ==
    LET p1 == StrChr(attr, StrChr(attr, 1, "_") + 1, "_") + 1
        len == find_channel_modifier(attr, p1)
        p2 == IF len # 0 THEN p1 + len + 1 ELSE p1
        p3 == IF has_name /\ HasPrefixAt(attr, p2, name) /\ At(attr, p2 + Len(name)) = "_"
              THEN p2 + Len(name) + 1 ELSE p2
    IN  SubSeq(attr, p3, Len(attr))

\* a mutant: the differential names are not recognised
is_global_attr_NoDifferential(chn, attr0) ==
    LET off == IF ~chn.is_output /\ HasPrefixAt(attr0, 1, W_in) THEN 3
               ELSE IF chn.is_output /\ HasPrefixAt(attr0, 1, W_out) THEN 4
               ELSE -1
        attr == SubSeq(attr0, off + 1, Len(attr0))
        ptr == StrChr(attr, 1, "_")
        len == ptr - 1
    IN  IF off < 0 \/ ptr = 0 THEN 0
        ELSE IF ~StrNEq(chn.id, 1, attr, 1, len) THEN 0
        ELSE IF IsDigit(At(chn.id, len + 1))
        THEN IF /\ chn.has_name
                /\ HasPrefixAt(attr, len + 2, chn.name)
                /\ At(attr, len + 2 + Len(chn.name)) = "_"
             THEN 2 ELSE 1
        ELSE IF At(chn.id, len + 1) # "_" THEN 0
        ELSE IF find_channel_modifier(chn.id, len + 2) # 0 THEN 1
        ELSE 0

\* lines 1045-1098: 0 the attribute is not the channel's, 1 it is shared, 2 it
\* is private
is_global_attr(chn, attr0) ==
    LET off == IF ~chn.is_output /\ HasPrefixAt(attr0, 1, W_in) THEN 3
               ELSE IF chn.is_output /\ HasPrefixAt(attr0, 1, W_out) THEN 4
               ELSE -1
        attr == SubSeq(attr0, off + 1, Len(attr0))
        ptr == StrChr(attr, 1, "_")
        len == ptr - 1
        dashptr == StrChr(attr, 1, "-")
        len1 == dashptr - 1
        len2 == ptr - dashptr - 1
        iddashptr == StrChr(chn.id, 1, "-")
        differential ==
            /\ dashptr # 0 /\ dashptr > 1 /\ dashptr < ptr
            /\ iddashptr # 0
            /\ Len(chn.id) - iddashptr > len2
            /\ iddashptr - 1 > len1
            /\ IsDigit(At(chn.id, len1 + 1))
            /\ StrNEq(chn.id, 1, attr, 1, len1)
            /\ IsDigit(At(chn.id, iddashptr + len2 + 1))
            /\ StrNEq(chn.id, iddashptr + 1, attr, dashptr + 1, len2)
    IN  IF off < 0 \/ ptr = 0 THEN 0
        ELSE IF differential THEN 1
        ELSE IF ~StrNEq(chn.id, 1, attr, 1, len) THEN 0
        ELSE IF IsDigit(At(chn.id, len + 1))
        THEN IF /\ chn.has_name
                /\ HasPrefixAt(attr, len + 2, chn.name)
                /\ At(attr, len + 2 + Len(chn.name)) = "_"
             THEN 2 ELSE 1
        ELSE IF At(chn.id, len + 1) # "_" THEN 0
        ELSE IF find_channel_modifier(chn.id, len + 2) # 0 THEN 1
        ELSE 0

(***************************************************************************)
(*   add_attr_or_channel, add_channel, set_channel_name,                   *)
(*   detect_and_move_global_attrs                                          *)
(*                                                                         *)
(* A device is built from the files of its directory: each file becomes a  *)
(* device attribute or an attribute of a channel, the channels get their   *)
(* names, and then the device attributes that belong to channels are moved *)
(* to them.  An allocation may fail at any step.                           *)
(***************************************************************************)
W_voltage == <<"v", "o", "l", "t", "a", "g", "e">>

W_accel == <<"a", "c", "c", "e", "l">>

W_temp == <<"t", "e", "m", "p">>

W_raw == <<"r", "a", "w">>

W_scale == <<"s", "c", "a", "l", "e">>

W_bar == <<"b", "a", "r">>

\* the files of the device directories tried, in readdir order
DeviceFiles ==
    << W_in \o W_voltage \o <<"0", "_">> \o W_bar \o <<"_">> \o W_raw,
       W_in \o W_voltage \o <<"0", "_">> \o W_bar \o <<"_">> \o W_scale,
       W_in \o W_voltage \o <<"1", "_">> \o W_raw,
       W_in \o W_voltage \o <<"_">> \o W_bar \o <<"_">> \o W_scale,
       W_in \o W_voltage \o <<"_">> \o W_scale,
       W_out \o W_voltage \o <<"0", "_">> \o W_raw,
       W_in \o W_temp \o <<"_">> \o W_scale,
       <<"f", "r", "e", "q">>,
       W_in \o W_voltage \o <<"0", "-">> \o W_voltage \o <<"1", "_">> \o W_raw,
       W_in \o W_voltage \o <<"-">> \o W_voltage \o <<"_">> \o W_scale,
       W_in \o W_accel \o <<"_", "x", "_">> \o W_raw,
       W_in \o W_accel \o <<"_">> \o W_scale,
       W_voltage \o <<"0", "-">> \o W_voltage \o <<"1", "_">> \o W_raw >>

\* the files of the index set picked, in the order of DeviceFiles
RECURSIVE Listing(_, _)
Listing(picked, k) ==
    IF k > Len(DeviceFiles) THEN <<>>
    ELSE (IF k \in picked THEN <<DeviceFiles[k]>> ELSE <<>>) \o Listing(picked, k + 1)

\* lines 951-990: create_channel, with the first attribute of the channel
create_channel(id, attr) ==
    [id |-> id, is_output |-> HasPrefixAt(attr, 1, W_out), has_name |-> FALSE, name |-> <<>>,
     attrs |-> <<[name |-> get_short_attr_name(FALSE, <<>>, attr), filename |-> attr]>>]

\* lines 895-935: add_attr_to_channel for an attribute that is no scan element
add_attr_to_channel(chn, attr) ==
    [chn EXCEPT !.attrs = Append(@, [name |-> get_short_attr_name(chn.has_name, chn.name, attr),
                                     filename |-> attr])]

\* a mutant: the direction is not compared
same_channel_AnyDirection(chn, id, attr) == chn.id = id

\* lines 1011-1012: the channel an attribute of this name and id is added to
same_channel(chn, id, attr) == chn.id = id /\ chn.is_output = (At(attr, 1) = "o")

\* lines 998-1037: the channels of the device after add_channel(dev, attr)
add_channel(chans, attr) ==
    LET id == get_channel_id(attr)
        found == {k \in DOMAIN chans : same_channel(chans[k], id, attr)}
    IN  IF found # {}
        THEN LET k == CHOOSE k \in found : \A j \in found : k <= j
             IN  [chans EXCEPT ![k] = add_attr_to_channel(@, attr)]
        ELSE Append(chans, create_channel(id, attr))

\* strcut(str, nb), lines 115-121
strcut(str, nb) == SubSeq(str, nb + 1, Len(str))

\* lines 139-162: the length of the prefix set_channel_name cuts; names are the
\* attribute names, attr0 first.  The underscores of attr0 are tried in turn
\* and the first prefix that is not common to all names ends the search
RECURSIVE prefix_search(_, _, _)
prefix_search(names, from, prefix_len) ==
    LET ptr == StrChr(names[1], from, "_")
    IN  IF ptr = 0 THEN prefix_len
        ELSE IF \A k \in 2..Len(names) : StrNEq(names[1], 1, names[k], 1, ptr)
        THEN prefix_search(names, ptr + 1, ptr)
        ELSE prefix_len

\* a mutant: the first common prefix is taken, not the longest
set_channel_prefix_First(attrs, prot) ==
    LET names == [k \in 1..(Len(attrs) + Len(prot)) |->
                     IF k <= Len(attrs) THEN attrs[k].name ELSE prot[k - Len(attrs)].name]
        ptr == StrChr(names[1], 1, "_")
    IN  IF Len(names) < 2 \/ ptr = 0 THEN 0
        ELSE IF \A k \in 2..Len(names) : StrNEq(names[1], 1, names[k], 1, ptr) THEN ptr
        ELSE 0

\* lines 131-162: prefix_len for the exposed and the protected attributes
set_channel_prefix(attrs, prot) ==
    LET names == [k \in 1..(Len(attrs) + Len(prot)) |->
                     IF k <= Len(attrs) THEN attrs[k].name ELSE prot[k - Len(attrs)].name]
    IN  IF Len(names) < 2 THEN 0 ELSE prefix_search(names, 1, 0)

\* lines 164-179: the attributes with their names cut
CutNames(as, n) == [k \in DOMAIN as |-> [as[k] EXCEPT !.name = strcut(@, n)]]

\* lines 123-182: the channel after set_channel_name returned 0
set_channel_name(chn) ==
    LET n == set_channel_prefix(chn.attrs, <<>>)
    IN  IF n = 0 THEN chn
        ELSE [chn EXCEPT !.has_name = TRUE,
                         !.name = SubSeq(chn.attrs[1].name, 1, n - 1),
                         !.attrs = CutNames(@, n)]

\* a mutant: the shared level is tested whatever the private level found
shared_level_tested_Always(match) == TRUE

\* lines 1134-1138: the shared level is tested when no channel matched as private
shared_level_tested(match) == ~match

\* lines 1100-1118: the channels detect_global_attr adds the attribute to
LevelMatches(chans, attr, level) == {k \in DOMAIN chans : is_global_attr(chans[k], attr) = level}

\* the channels with the attribute added to those of the set ks
AddToAll(chans, ks, attr) ==
    [k \in DOMAIN chans |-> IF k \in ks THEN add_attr_to_channel(chans[k], attr) ELSE chans[k]]

DevIdle ==
    /\ dv_pc = "idle"
    /\ dv_files = <<>>
    /\ dv_i = 0
    /\ dv_attrs = <<>>
    /\ dv_chans = <<>>
    /\ dv_ret = 0
    /\ dv_nchan = 0
    /\ dv_moved = <<>>

\* an empty device and the listing of its directory
InitDev ==
    /\ dv_pc = "scan"
    /\ \E picked \in SUBSET (DOMAIN DeviceFiles) :
          /\ Cardinality(picked) <= MaxFiles
          /\ dv_files = Listing(picked, 1)
    /\ dv_i = 1
    /\ dv_attrs = <<>>
    /\ dv_chans = <<>>
    /\ dv_ret = 0
    /\ dv_nchan = 0
    /\ dv_moved = <<>>

\* an allocation fails: the construction of the device ends with -ENOMEM
dev_enomem ==
    /\ dv_pc \in {"scan", "names", "global", "leftover"}
    /\ dv_i <= (IF dv_pc = "scan" THEN Len(dv_files)
                ELSE IF dv_pc = "names" THEN Len(dv_chans) ELSE Len(dv_attrs))
    /\ dv_pc' = "failed"
    /\ dv_ret' = -ENOMEM
    /\ UNCHANGED <<dv_files, dv_i, dv_attrs, dv_chans, dv_nchan, dv_moved>>

\* lines 1191-1207: add_attr_or_channel_helper for the next file of the directory
add_attr_or_channel ==
    /\ dv_pc = "scan"
    /\ dv_i <= Len(dv_files)
    /\ IF is_channel(dv_files[dv_i], TRUE)
       THEN dv_chans' = add_channel(dv_chans, dv_files[dv_i]) /\ UNCHANGED dv_attrs
       ELSE dv_attrs' = Append(dv_attrs, dv_files[dv_i]) /\ UNCHANGED dv_chans
    /\ dv_i' = dv_i + 1
    /\ UNCHANGED <<dv_pc, dv_files, dv_ret, dv_nchan, dv_moved>>

\* lines 1322-1334: the directory is read; the channels are named next
scan_done ==
    /\ dv_pc = "scan"
    /\ dv_i > Len(dv_files)
    /\ dv_pc' = "names"
    /\ dv_i' = 1
    /\ UNCHANGED <<dv_files, dv_attrs, dv_chans, dv_ret, dv_nchan, dv_moved>>

\* lines 1334-1345: set_channel_name for the next channel; after the last one
\* detect_and_move_global_attrs starts
name_channel ==
    /\ dv_pc = "names"
    /\ IF dv_i <= Len(dv_chans)
       THEN /\ dv_chans' = [dv_chans EXCEPT ![dv_i] = set_channel_name(@)]
            /\ dv_i' = dv_i + 1
            /\ UNCHANGED <<dv_pc, dv_nchan>>
       ELSE /\ dv_pc' = "global"
            /\ dv_i' = 1
            /\ dv_nchan' = Len(dv_chans)
            /\ UNCHANGED dv_chans
    /\ UNCHANGED <<dv_files, dv_attrs, dv_ret, dv_moved>>

\* lines 1125-1146: the next device attribute is tested against the channels
\* and moved; after the last one the leftover attributes are looked at
move_global_attr ==
    /\ dv_pc = "global"
    /\ IF dv_i <= Len(dv_attrs)
       THEN LET attr == dv_attrs[dv_i]
                private == LevelMatches(dv_chans, attr, 2)
                shared == IF shared_level_tested(private # {})
                          THEN LevelMatches(dv_chans, attr, 1) ELSE {}
                match == private # {} \/ shared # {}
            IN  /\ dv_chans' = AddToAll(dv_chans, private \cup shared, attr)
                /\ dv_attrs' = IF match THEN [dv_attrs EXCEPT ![dv_i] = <<>>] ELSE dv_attrs
                /\ dv_moved' = Append(dv_moved, [attr |-> attr, to |-> private \cup shared])
                /\ dv_i' = dv_i + 1
                /\ UNCHANGED dv_pc
       ELSE /\ dv_pc' = "leftover"
            /\ dv_i' = 1
            /\ UNCHANGED <<dv_chans, dv_attrs, dv_moved>>
    /\ UNCHANGED <<dv_files, dv_ret, dv_nchan>>

\* lines 1148-1163: a leftover attribute that is_channel accepts becomes a
\* channel; lines 1165-1174: after the last one the list is compacted
leftover_attr ==
    /\ dv_pc = "leftover"
    /\ IF dv_i <= Len(dv_attrs)
       THEN /\ IF dv_attrs[dv_i] # <<>> /\ is_channel(dv_attrs[dv_i], FALSE)
               THEN /\ dv_chans' = add_channel(dv_chans, dv_attrs[dv_i])
                    /\ dv_attrs' = [dv_attrs EXCEPT ![dv_i] = <<>>]
               ELSE UNCHANGED <<dv_chans, dv_attrs>>
            /\ dv_i' = dv_i + 1
            /\ UNCHANGED dv_pc
       ELSE /\ dv_pc' = "done"
            /\ dv_attrs' = SelectSeq(dv_attrs, LAMBDA a : a # <<>>)
            /\ UNCHANGED <<dv_chans, dv_i>>
    /\ UNCHANGED <<dv_files, dv_ret, dv_nchan, dv_moved>>

(***************************************************************************)
(*   is_channel and get_channel_id on one attribute name                   *)
(*                                                                         *)
(* The name of a file is tested by is_channel in its strict mode (when the *)
(* directory is read) and in its non-strict mode (when the leftover        *)
(* attributes are looked at), and add_channel asks get_channel_id for the  *)
(* id of the channel of a name that passed.                                *)
(***************************************************************************)
NameStems == {W_voltage, W_accel, W_temp}

NameNumbers == {<<>>, <<"0">>, <<"1">>}

NameSuffixes ==
    { W_raw, W_scale, <<"x">>, <<"i", "n", "d", "e", "x">>,
      <<"i", "_">> \o W_raw, <<"x", "_">> \o W_raw, <<"q", "_">> \o W_scale,
      W_bar \o <<"_">> \o W_raw }

\* the names tried: a direction, a stem, a number or none, and a suffix; and
\* names of other shapes
AttrNames ==
    { p \o x \o d \o <<"_">> \o s :
          p \in {W_in, W_out}, x \in NameStems, d \in NameNumbers, s \in NameSuffixes }
    \cup { <<"f", "r", "e", "q">>, W_in \o W_voltage \o <<"0">>,
           W_timestamp \o <<"t", "y", "p", "e">> }

NameIdle ==
    /\ nm_pc = "idle"
    /\ nm_attr = <<>>
    /\ nm_strict = FALSE
    /\ nm_loose = FALSE
    /\ nm_id = <<>>

InitName ==
    /\ nm_pc = "drawn"
    /\ nm_attr \in AttrNames
    /\ nm_strict = FALSE
    /\ nm_loose = FALSE
    /\ nm_id = <<>>

\* line 1201: is_channel(dev, name, true)
name_strict_test ==
    /\ nm_pc = "drawn"
    /\ nm_strict' = is_channel(nm_attr, TRUE)
    /\ nm_pc' = "strict"
    /\ UNCHANGED <<nm_attr, nm_loose, nm_id>>

\* line 1154: is_channel(dev, attr, false)
name_loose_test ==
    /\ nm_pc = "strict"
    /\ nm_loose' = is_channel(nm_attr, FALSE)
    /\ nm_pc' = "tested"
    /\ UNCHANGED <<nm_attr, nm_strict, nm_id>>

\* line 1006: add_channel asks for the id of the channel of a name that passed
name_channel_id ==
    /\ nm_pc = "tested"
    /\ nm_strict \/ nm_loose
    /\ nm_id' = get_channel_id(nm_attr)
    /\ nm_pc' = "identified"
    /\ UNCHANGED <<nm_attr, nm_strict, nm_loose>>

(***************************************************************************)
(*   set_channel_name on one channel                                       *)
(*                                                                         *)
(* A channel with some exposed and some protected attributes, as           *)
(* create_device hands it to set_channel_name.                             *)
(***************************************************************************)
W_baz == <<"b", "a", "z">>

\* the attribute names tried
ShortNames ==
    { W_raw, W_scale, W_bar \o <<"_">> \o W_raw, W_bar \o <<"_">> \o W_scale,
      W_bar \o <<"_">> \o W_baz \o <<"_">> \o W_raw,
      W_bar \o <<"_">> \o W_baz \o <<"_">> \o W_scale,
      W_baz \o <<"_">> \o W_raw }

\* the attribute lists of at most n names
AttrLists(n) ==
    UNION { [1..k -> {[name |-> s, filename |-> s] : s \in ShortNames}] : k \in 0..n }

ChnIdle ==
    /\ cn_pc = "idle"
    /\ cn_attrs = <<>>
    /\ cn_prot = <<>>
    /\ cn_has_name = FALSE
    /\ cn_name = <<>>
    /\ cn_ret = 0
    /\ cn_given = <<>>

InitChn ==
    /\ cn_pc = "new"
    /\ cn_attrs \in AttrLists(MaxAttrs)
    /\ cn_prot \in AttrLists(MaxProt)
    /\ cn_has_name = FALSE
    /\ cn_name = <<>>
    /\ cn_ret = 0
    /\ cn_given = cn_attrs \o cn_prot

\* lines 123-182: set_channel_name returns 0
chn_set_name ==
    /\ cn_pc = "new"
    /\ LET prefix_len == set_channel_prefix(cn_attrs, cn_prot)
           attr0 == IF cn_attrs # <<>> THEN cn_attrs[1].name ELSE cn_prot[1].name
       IN  IF prefix_len # 0
           THEN /\ cn_has_name' = TRUE
                /\ cn_name' = SubSeq(attr0, 1, prefix_len - 1)
                /\ cn_attrs' = CutNames(cn_attrs, prefix_len)
                /\ cn_prot' = CutNames(cn_prot, prefix_len)
           ELSE UNCHANGED <<cn_has_name, cn_name, cn_attrs, cn_prot>>
    /\ cn_ret' = 0
    /\ cn_pc' = "named"
    /\ UNCHANGED cn_given

\* lines 164-169: there is a prefix and malloc fails
chn_set_name_enomem ==
    /\ cn_pc = "new"
    /\ set_channel_prefix(cn_attrs, cn_prot) # 0
    /\ cn_ret' = -ENOMEM
    /\ cn_pc' = "failed"
    /\ UNCHANGED <<cn_has_name, cn_name, cn_attrs, cn_prot, cn_given>>

(***************************************************************************)
(*   add_channel, call after call                                          *)
(*                                                                         *)
(* The calls of add_channel that build the channels of one device: for the *)
(* files of the device directory that pass the strict is_channel test, for *)
(* the files of scan_elements (no test), and for the leftover attributes   *)
(* that pass the non-strict test.                                          *)
(***************************************************************************)
W_en == <<"e", "n">>

\* the file names the calls are made with
AddNames ==
    { W_in \o W_voltage \o <<"0", "_">> \o W_raw,
      W_out \o W_voltage \o <<"0", "_">> \o W_raw,
      W_in \o W_accel \o <<"_", "x", "_">> \o W_raw,
      W_in \o W_temp \o <<"_">> \o W_scale,
      W_in \o W_voltage \o <<"0", "_">> \o W_en,
      W_out \o W_voltage \o <<"0", "_">> \o W_en,
      <<"o", "_">> \o W_voltage \o <<"0", "_">> \o W_en,
      <<"o", "_">> \o W_temp \o <<"_">> \o W_en }

\* the callers of add_channel and the names each may pass
AddCallers == {"dir", "scan_elements", "leftover"}

MayPass(caller, name) ==
    CASE caller = "dir" -> is_channel(name, TRUE)
      [] caller = "leftover" -> is_channel(name, FALSE) /\ ~is_channel(name, TRUE)
      [] OTHER -> TRUE

AddIdle ==
    /\ ac_chans = <<>>
    /\ ac_prot = <<>>
    /\ ac_n = 0
    /\ ac_last = [name |-> <<>>, caller |-> "none", ret |-> 0]

\* a device that has no channel yet
InitAdd ==
    /\ ac_chans = <<>>
    /\ ac_prot = <<>>
    /\ ac_n = 1
    /\ ac_last = [name |-> <<>>, caller |-> "none", ret |-> 0]

\* lines 998-1037: add_channel(dev, name, path, dir_is_scan_elements) with no
\* allocation failing
add_channel_call ==
    /\ ac_n >= 1 /\ ac_n <= MaxCalls
    /\ \E caller \in AddCallers, name \in AddNames :
          /\ MayPass(caller, name)
          /\ LET scan == caller = "scan_elements"
                 channel_id == get_channel_id(name)
                 found == {k \in DOMAIN ac_chans : same_channel(ac_chans[k], channel_id, name)}
                 first == CHOOSE k \in found : \A j \in found : k <= j
                 created == create_channel(channel_id, name)
             IN  IF found # {}
                 THEN /\ ac_chans' = IF scan THEN ac_chans
                                     ELSE [ac_chans EXCEPT ![first] = add_attr_to_channel(@, name)]
                      /\ ac_prot' = IF scan THEN [ac_prot EXCEPT ![first] = Append(@, name)]
                                    ELSE ac_prot
                      /\ ac_last' = [name |-> name, caller |-> caller, ret |-> 0]
                 ELSE IF HasPrefixAt(name, 1, W_out) \/ HasPrefixAt(name, 1, W_in)
                 THEN /\ ac_chans' = Append(ac_chans, IF scan THEN [created EXCEPT !.attrs = <<>>]
                                                      ELSE created)
                      /\ ac_prot' = Append(ac_prot, IF scan THEN <<name>> ELSE <<>>)
                      /\ ac_last' = [name |-> name, caller |-> caller, ret |-> 0]
                 ELSE /\ ac_last' = [name |-> name, caller |-> caller, ret |-> -EINVAL]
                      /\ UNCHANGED <<ac_chans, ac_prot>>
    /\ ac_n' = ac_n + 1

\* an allocation of add_channel fails: nothing is added
add_channel_enomem ==
    /\ ac_n >= 1 /\ ac_n <= MaxCalls
    /\ \E caller \in AddCallers, name \in AddNames :
          /\ MayPass(caller, name)
          /\ ac_last' = [name |-> name, caller |-> caller, ret |-> -ENOMEM]
    /\ ac_n' = ac_n + 1
    /\ UNCHANGED <<ac_chans, ac_prot>>

(***************************************************************************)
(*                          Specifications                                 *)
(***************************************************************************)
\* everything but tvars
RestOfTimeout == <<iovars, bufvars, ctxvars, blkvars, fmtvars, devvars, namevars, chnvars, addvars>>

NextTimeout ==
    \/ (ClockAdvance /\ UNCHANGED RestOfTimeout)
    \/ (CallRelTimeout /\ UNCHANGED RestOfTimeout)

StartTimeout ==
    /\ InitTimeout
    /\ IOIdle
    /\ BufIdle
    /\ CtxIdle
    /\ BlkIdle
    /\ FmtIdle
    /\ DevIdle
    /\ NameIdle
    /\ ChnIdle
    /\ AddIdle

SpecTimeout == StartTimeout /\ [][NextTimeout]_vars

\* everything but iovars
RestOfIO == <<tvars, bufvars, ctxvars, blkvars, fmtvars, devvars, namevars, chnvars, addvars>>

NextIO ==
    \/ (local_readbuf /\ UNCHANGED RestOfIO)
    \/ (local_writebuf /\ UNCHANGED RestOfIO)
    \/ (check_ready_nonblock /\ UNCHANGED RestOfIO)
    \/ (poll_enter /\ UNCHANGED RestOfIO)
    \/ (poll_ready /\ UNCHANGED RestOfIO)
    \/ (poll_expired /\ UNCHANGED RestOfIO)
    \/ (poll_eintr /\ UNCHANGED RestOfIO)
    \/ (xfer_bytes /\ UNCHANGED RestOfIO)
    \/ (xfer_eagain /\ UNCHANGED RestOfIO)
    \/ (xfer_eintr /\ UNCHANGED RestOfIO)
    \/ (xfer_fails /\ UNCHANGED RestOfIO)
    \/ (local_cancel_buffer /\ UNCHANGED RestOfIO)
    \/ (device_event /\ UNCHANGED RestOfIO)
    \/ (io_tick /\ UNCHANGED RestOfIO)

StartIO ==
    /\ InitIO
    /\ TimeoutIdle
    /\ BufIdle
    /\ CtxIdle
    /\ BlkIdle
    /\ FmtIdle
    /\ DevIdle
    /\ NameIdle
    /\ ChnIdle
    /\ AddIdle

SpecIO == StartIO /\ [][NextIO]_vars

\* the calling thread is scheduled: a step of it that stays possible is taken
SpecIOFair == SpecIO /\ WF_vars(caller_step /\ UNCHANGED RestOfIO)

\* everything but bufvars
RestOfBuf == <<tvars, iovars, ctxvars, blkvars, fmtvars, devvars, namevars, chnvars, addvars>>

NextBuf ==
    \/ (cb_begin /\ UNCHANGED RestOfBuf)
    \/ (cb_eventfd /\ UNCHANGED RestOfBuf)
    \/ (cb_open /\ UNCHANGED RestOfBuf)
    \/ (cb_ioctl /\ UNCHANGED RestOfBuf)
    \/ (cb_disable /\ UNCHANGED RestOfBuf)
    \/ (cb_chn_off /\ UNCHANGED RestOfBuf)
    \/ (cb_chn_on /\ UNCHANGED RestOfBuf)
    \/ (cb_chn_read /\ UNCHANGED RestOfBuf)
    \/ (cb_err_close /\ UNCHANGED RestOfBuf)
    \/ (cb_err_close_eventfd /\ UNCHANGED RestOfBuf)
    \/ (backend_probe /\ UNCHANGED RestOfBuf)
    \/ (en_begin /\ UNCHANGED RestOfBuf)
    \/ (en_length /\ UNCHANGED RestOfBuf)
    \/ (en_watermark /\ UNCHANGED RestOfBuf)
    \/ (en_enable /\ UNCHANGED RestOfBuf)
    \/ (fr_begin /\ UNCHANGED RestOfBuf)
    \/ (fr_step /\ UNCHANGED RestOfBuf)

StartBuf ==
    /\ InitBuf
    /\ TimeoutIdle
    /\ IOIdle
    /\ CtxIdle
    /\ BlkIdle
    /\ FmtIdle
    /\ DevIdle
    /\ NameIdle
    /\ ChnIdle
    /\ AddIdle

SpecBuf == StartBuf /\ [][NextBuf]_vars

\* everything but ctxvars
RestOfCtx == <<tvars, iovars, bufvars, blkvars, fmtvars, devvars, namevars, chnvars, addvars>>

NextCtx ==
    \/ (local_create_context /\ UNCHANGED RestOfCtx)
    \/ (scan_opendir /\ UNCHANGED RestOfCtx)
    \/ (scan_end /\ UNCHANGED RestOfCtx)
    \/ (scan_skip /\ UNCHANGED RestOfCtx)
    \/ (scan_device /\ UNCHANGED RestOfCtx)
    \/ (scan_result /\ UNCHANGED RestOfCtx)
    \/ (context_finish /\ UNCHANGED RestOfCtx)

StartCtx ==
    /\ InitCtx
    /\ TimeoutIdle
    /\ IOIdle
    /\ BufIdle
    /\ BlkIdle
    /\ FmtIdle
    /\ DevIdle
    /\ NameIdle
    /\ ChnIdle
    /\ AddIdle

SpecCtx == StartCtx /\ [][NextCtx]_vars

\* everything but blkvars
RestOfBlk == <<tvars, iovars, bufvars, ctxvars, fmtvars, devvars, namevars, chnvars, addvars>>

NextBlk ==
    \/ (local_create_block /\ UNCHANGED RestOfBlk)
    \/ (blk_dmabuf /\ UNCHANGED RestOfBlk)
    \/ (blk_mmap /\ UNCHANGED RestOfBlk)
    \/ (local_enqueue_block /\ UNCHANGED RestOfBlk)
    \/ (local_dequeue_block /\ UNCHANGED RestOfBlk)
    \/ (local_free_block /\ UNCHANGED RestOfBlk)

StartBlk ==
    /\ InitBlk
    /\ TimeoutIdle
    /\ IOIdle
    /\ BufIdle
    /\ CtxIdle
    /\ FmtIdle
    /\ DevIdle
    /\ NameIdle
    /\ ChnIdle
    /\ AddIdle

SpecBlk == StartBlk /\ [][NextBlk]_vars

\* everything but fmtvars
RestOfFmt == <<tvars, iovars, bufvars, ctxvars, blkvars, devvars, namevars, chnvars, addvars>>

NextFmt ==
    \/ (type_unreadable /\ UNCHANGED RestOfFmt)
    \/ (handle_type /\ UNCHANGED RestOfFmt)

StartFmt ==
    /\ InitFmt
    /\ TimeoutIdle
    /\ IOIdle
    /\ BufIdle
    /\ CtxIdle
    /\ BlkIdle
    /\ DevIdle
    /\ NameIdle
    /\ ChnIdle
    /\ AddIdle

SpecFmt == StartFmt /\ [][NextFmt]_vars

\* everything but devvars
RestOfDev == <<tvars, iovars, bufvars, ctxvars, blkvars, fmtvars, namevars, chnvars, addvars>>

NextDev ==
    \/ (dev_enomem /\ UNCHANGED RestOfDev)
    \/ (add_attr_or_channel /\ UNCHANGED RestOfDev)
    \/ (scan_done /\ UNCHANGED RestOfDev)
    \/ (name_channel /\ UNCHANGED RestOfDev)
    \/ (move_global_attr /\ UNCHANGED RestOfDev)
    \/ (leftover_attr /\ UNCHANGED RestOfDev)

StartDev ==
    /\ InitDev
    /\ TimeoutIdle
    /\ IOIdle
    /\ BufIdle
    /\ CtxIdle
    /\ BlkIdle
    /\ FmtIdle
    /\ NameIdle
    /\ ChnIdle
    /\ AddIdle

SpecDev == StartDev /\ [][NextDev]_vars

\* everything but namevars
RestOfName == <<tvars, iovars, bufvars, ctxvars, blkvars, fmtvars, devvars, chnvars, addvars>>

NextName ==
    \/ (name_strict_test /\ UNCHANGED RestOfName)
    \/ (name_loose_test /\ UNCHANGED RestOfName)
    \/ (name_channel_id /\ UNCHANGED RestOfName)

StartName ==
    /\ InitName
    /\ TimeoutIdle
    /\ IOIdle
    /\ BufIdle
    /\ CtxIdle
    /\ BlkIdle
    /\ FmtIdle
    /\ DevIdle
    /\ ChnIdle
    /\ AddIdle

SpecName == StartName /\ [][NextName]_vars

\* everything but chnvars
RestOfChn == <<tvars, iovars, bufvars, ctxvars, blkvars, fmtvars, devvars, namevars, addvars>>

NextChn ==
    \/ (chn_set_name /\ UNCHANGED RestOfChn)
    \/ (chn_set_name_enomem /\ UNCHANGED RestOfChn)

StartChn ==
    /\ InitChn
    /\ TimeoutIdle
    /\ IOIdle
    /\ BufIdle
    /\ CtxIdle
    /\ BlkIdle
    /\ FmtIdle
    /\ DevIdle
    /\ NameIdle
    /\ AddIdle

SpecChn == StartChn /\ [][NextChn]_vars

\* everything but addvars
RestOfAdd == <<tvars, iovars, bufvars, ctxvars, blkvars, fmtvars, devvars, namevars, chnvars>>

NextAdd ==
    \/ (add_channel_call /\ UNCHANGED RestOfAdd)
    \/ (add_channel_enomem /\ UNCHANGED RestOfAdd)

StartAdd ==
    /\ InitAdd
    /\ TimeoutIdle
    /\ IOIdle
    /\ BufIdle
    /\ CtxIdle
    /\ BlkIdle
    /\ FmtIdle
    /\ DevIdle
    /\ NameIdle
    /\ ChnIdle

SpecAdd == StartAdd /\ [][NextAdd]_vars

(***************************************************************************)
(* C8: for every timeout_rel and every elapsed time get_rel_timeout_ms     *)
(* returns -1 when timeout_rel = 0, else 0 when the elapsed ms are at      *)
(* least timeout_rel, else timeout_rel minus the elapsed ms, clamped to    *)
(* INT_MAX (a not yet expired timeout above INT_MAX yields INT_MAX).       *)
(***************************************************************************)
C8_RelTimeoutValue ==
    \A i \in 1..Len(rel_calls) :
        rel_calls[i].ret =
            IF rw_timeout = 0 THEN -1
            ELSE IF Elapsed(rel_calls[i]) >= rw_timeout THEN 0
            ELSE Min(rw_timeout - Elapsed(rel_calls[i]), INT_MAX)

C3_CancelWakes ==
    (io_pc = "poll" /\ io_op \in RwOps /\ cancel_cnt > 0)
        ~> (io_pc = "done" /\ io_result = -EBADF)

\* a call without timeout that was blocked in poll, with nothing ready, when the
\* cancellation came, has returned -EBADF
C3_Witness ==
    /\ io_blocked
    /\ io_timeout = 0
    /\ io_pc = "done"
    /\ io_result = -EBADF

(***************************************************************************)
(* C4: once local_cancel_buffer has signalled the buffer, the eventfd      *)
(* stays readable whatever is called afterwards, and every local_readbuf   *)
(* or local_writebuf call with len > 0 begun after it transfers nothing,   *)
(* never waits in a poll that could block, and returns -EBADF.             *)
(***************************************************************************)
C4_CancelSticky ==
    /\ cancelled => cancel_cnt > 0
    /\ (io_cancelled /\ io_op \in RwOps /\ io_req > 0) =>
          /\ io_cnt = 0
          /\ io_pc # "xfer"
          /\ io_pc = "poll" => PollCount(EventsOf(io_op)) > 0
          /\ io_pc = "done" => io_result = -EBADF

\* a read begun after a cancellation returned -EBADF although data is there,
\* and the buffer was cancelled more than once
C4_Witness ==
    /\ io_cancelled
    /\ io_op = "read"
    /\ io_req > 0
    /\ io_pc = "done"
    /\ io_result = -EBADF
    /\ "POLLIN" \in fd_ready
    /\ cancel_cnt > 1

C7_Expected(has_start, events) ==
    IF cancel_cnt > 0 THEN -EBADF
    ELSE IF fd_ready \cap (events \cup PollAlways) = {}
    THEN (IF has_start THEN -ETIMEDOUT ELSE -EBUSY)
    ELSE IF "POLLNVAL" \in fd_ready THEN -EBADF
    ELSE IF fd_ready \cap events = {} THEN -EIO
    ELSE 0

(***************************************************************************)
(* C7: buffer_check_ready returns -EBADF whenever the cancellation         *)
(* descriptor is readable; otherwise, when the wait expires with nothing   *)
(* ready, -ETIMEDOUT if a start time was given and -EBUSY if none was;     *)
(* otherwise -EBADF for an invalid data descriptor, -EIO when none of the  *)
(* requested events is reported, and 0 when a requested event is ready.    *)
(***************************************************************************)
C7_CheckReadyResult ==
    [][(io_pc = "poll" /\ io_pc' \in {"xfer", "done"})
          => io_ret' = C7_Expected(io_op \in RwOps, EventsOf(io_op))]_vars

\* a check without start time found nothing ready and returned -EBUSY
C7_Witness ==
    /\ io_pc = "done"
    /\ io_op \in CheckOps
    /\ io_ret = -EBUSY
    /\ cancel_cnt = 0

(***************************************************************************)
(* C1: local_enable_buffer passes its capability check exactly when        *)
(* (dmabuf_supported OR mmap_supported) equals (nb_samples != 0), and      *)
(* returns -EINVAL otherwise.  Checked under SpecBuf.                      *)
(*                                                                         *)
(* The code compares the flags with !nb_samples: the call passes exactly   *)
(* when the flags equal (nb_samples = 0).  C1_Original is the claim as     *)
(* stated and is violated; C1_CapabilityCheck is what the code does.       *)
(***************************************************************************)
\* the buffer has one of the two capabilities
Capable == pdata.dmabuf_supported \/ pdata.mmap_supported

\* the local_enable_buffer call in progress, or the last one, went past line 311
EnablePassed == b_op = "enable" /\ (b_pc # "ready" \/ oplog # <<>>)

\* the last local_enable_buffer call returned at line 312
EnableRefused == b_op = "enable" /\ b_pc = "ready" /\ oplog = <<>>

C1_Original ==
    b_op = "enable" =>
        /\ EnablePassed <=> (Capable = (en_nb # 0))
        /\ EnableRefused => b_result = -EINVAL

\* C1, as the code has it: the capability check passes exactly when
\* (dmabuf_supported OR mmap_supported) equals (nb_samples = 0) and the call
\* returns -EINVAL otherwise: a non-zero sample count on a buffer that has one of
\* the capabilities is refused, and so is a zero sample count on a buffer that
\* has neither.
C1_CapabilityCheck ==
    b_op = "enable" =>
        /\ EnablePassed <=> (Capable = (en_nb = 0))
        /\ EnableRefused => b_result = -EINVAL
        /\ (Capable /\ en_nb # 0) => EnableRefused
        /\ (~Capable /\ en_nb = 0) => EnableRefused

\* a sized enable of a buffer that has a capability was refused
C1_Witness ==
    /\ EnableRefused
    /\ Capable
    /\ en_nb # 0
    /\ b_result = -EINVAL

(***************************************************************************)
(* C2: on every teardown local_free_buffer writes enable=0 to the buffer   *)
(* before it closes the data descriptor and the cancellation descriptor;   *)
(* a failure of the disable write does not stop the teardown.  Checked     *)
(* under SpecBuf.                                                          *)
(*                                                                         *)
(* The code closes both descriptors first and writes enable=0 last.        *)
(* C2_Original is the order as stated and is violated; C2_CloseThenDisable *)
(* is the order of the code.                                               *)
(***************************************************************************)
IsDisableWrite(e) == e.ev = "write" /\ e.attr = "enable" /\ e.val = 0

C2_Original ==
    b_op = "free" =>
        \A i \in DOMAIN oplog :
            oplog[i].ev = "close" => \E j \in 1..(i - 1) : IsDisableWrite(oplog[j])

\* C2, as the code has it: on every teardown local_free_buffer closes the data
\* descriptor, then the cancellation descriptor, and then writes enable=0 to the
\* buffer; whatever the result of that write, the teardown completes.
C2_CloseThenDisable ==
    b_op = "free" =>
        /\ \A i \in DOMAIN oplog :
              /\ i = 1 => oplog[i].ev = "close" /\ oplog[i].fd = pdata.fd
              /\ i = 2 => oplog[i].ev = "close" /\ oplog[i].fd = pdata.cancel_fd
              /\ i = 3 => IsDisableWrite(oplog[i])
              /\ i <= 3
        /\ b_pc = "none" =>
              /\ Len(oplog) = 3
              /\ ~pdata_live
              /\ pdata.fd \notin open_fds
              /\ pdata.cancel_fd \notin open_fds

\* a teardown completed although the disable write failed
C2_Witness ==
    /\ b_op = "free"
    /\ b_pc = "none"
    /\ Len(oplog) = 3
    /\ oplog[3].res < 0
    /\ ~pdata_live

(***************************************************************************)
(* C10: local_create_buffer tolerates a failure of the per-index           *)
(* descriptor ioctl only when the requested index is 0; for a non-zero     *)
(* index an ioctl failure makes the creation fail with that error and no   *)
(* buffer is returned.  When the ioctl succeeds the returned descriptor    *)
(* replaces the opened one and multi_buffer is set.  Checked under SpecBuf.*)
(***************************************************************************)
\* the descriptor a successful call of the kind ev returned in this operation
FdOf(ev) == (CHOOSE i \in DOMAIN oplog : oplog[i].ev = ev /\ oplog[i].res = 0)

LogFd(ev) == oplog[FdOf(ev)].fd

C10_IoctlTolerance ==
    (b_op = "create" /\ b_ioctl # 1) =>
        /\ (b_ioctl < 0 /\ b_idx > 0) =>
              /\ b_pc \in {"cb_err_close", "cb_err_close_eventfd", "none"}
              /\ ~pdata_live
              /\ b_err = b_ioctl
              /\ b_pc = "none" => b_result = b_ioctl
        /\ (b_ioctl < 0 /\ b_idx = 0) =>
              /\ oplog[Len(oplog)].ev = "ioctl" => b_pc = "cb_disable"
              /\ b_pc # "none" =>
                    /\ pdata.fd = LogFd("open")
                    /\ ~pdata.multi_buffer
                    /\ LogFd("open") \in open_fds \/ b_pc = "cb_err_close_eventfd"
        /\ (b_ioctl = 0 /\ b_pc # "none") =>
              /\ pdata.fd = LogFd("ioctl")
              /\ pdata.fd # LogFd("open")
              /\ pdata.multi_buffer
              /\ LogFd("open") \notin open_fds
              /\ LogFd("ioctl") \in open_fds \/ b_pc = "cb_err_close_eventfd"

\* a buffer of index 0 was created although the ioctl failed
C10_Witness ==
    /\ b_op = "create"
    /\ b_pc = "ready"
    /\ pdata_live
    /\ b_idx = 0
    /\ b_ioctl < 0
    /\ ~pdata.multi_buffer

(***************************************************************************)
(* C6: during local_create_context a device directory whose construction   *)
(* fails with an error other than out-of-memory is discarded and the scan  *)
(* goes on: the sibling devices are still discovered and context creation  *)
(* succeeds without the failed device.  Checked under SpecCtx.             *)
(*                                                                         *)
(* foreach_in_dir leaves its loop at the first callback that fails, and    *)
(* local_create_context fails with that error.  C6_Original is the claim   *)
(* as stated and is violated; C6_FailureAborts is what the code does.      *)
(***************************************************************************)
DevEntries(dir, name) == {<<name, i>> : i \in {k \in DOMAIN dir.entries : dir.entries[k] = "dev"}}

Tolerated(f) ==
    /\ f.err = -ENOENT
    /\ \/ f.dev[1] = "iio" /\ with_hwmon
       \/ f.dev[1] = "hwmon" /\ ~cx_no_iio

C11_MaskReflectsHardware ==
    (b_op = "create" /\ b_pc = "ready") =>
        \A c \in DOMAIN dev_chans :
            dev_chans[c].index >= 0 => (c \in b_mask <=> chn_en[c])

(***************************************************************************)
(* C12: when local_enable_buffer sizes a buffer it writes length,          *)
(* watermark, enable=1 in this order: enable=1 is written only after the   *)
(* length write succeeded and the watermark write succeeded or failed with *)
(* ENOENT or EACCES; any other length or watermark failure is returned and *)
(* enable=1 is not written.  Checked under SpecBuf.                        *)
(***************************************************************************)
IsWrite(e, attr) == e.ev = "write" /\ e.attr = attr

WatermarkTolerated(r) == r >= 0 \/ r = -ENOENT \/ r = -EACCES

C12_EnableOrder ==
    (b_op = "enable" /\ en_nb # 0) =>
        /\ Len(oplog) <= 3
        /\ Len(oplog) >= 1 => IsWrite(oplog[1], "length") /\ oplog[1].val = en_nb
        /\ Len(oplog) >= 2 =>
              /\ IsWrite(oplog[2], "watermark")
              /\ oplog[2].val = en_nb
              /\ oplog[1].res >= 0
        /\ Len(oplog) = 3 =>
              /\ IsWrite(oplog[3], "enable")
              /\ oplog[3].val = 1
              /\ WatermarkTolerated(oplog[2].res)
        /\ (b_pc = "ready" /\ Len(oplog) = 1) =>
              oplog[1].res < 0 /\ b_result = oplog[1].res
        /\ (b_pc = "ready" /\ Len(oplog) = 2) =>
              ~WatermarkTolerated(oplog[2].res) /\ b_result = oplog[2].res
        /\ (b_pc = "ready" /\ Len(oplog) = 3) =>
              b_result = (IF oplog[3].res < 0 THEN oplog[3].res ELSE 0)

\* enable=1 was written after a watermark write that failed with EACCES
C12_Witness ==
    /\ b_op = "enable"
    /\ b_pc = "ready"
    /\ en_nb # 0
    /\ Len(oplog) = 3
    /\ oplog[2].res = -EACCES
    /\ oplog[3].res = 0
    /\ buf_enable = 1
    /\ b_result = 0

(***************************************************************************)
(* C13: local_create_block tries the dma-buf backend first and the mmap    *)
(* backend only when dma-buf returned -ENOSYS; a result other than -ENOSYS *)
(* (success or another error) is returned as it is without trying the next *)
(* backend, and -ENOSYS is returned only when every compiled-in backend    *)
(* reported -ENOSYS.  A backend that is not compiled in is not tried and   *)
(* counts as passed.  Checked under SpecBlk.                               *)
(***************************************************************************)
Compiled == (IF with_dmabuf THEN <<"dmabuf">> ELSE <<>>) \o (IF with_mmap THEN <<"mmap">> ELSE <<>>)

C13_BackendOrder ==
    /\ Len(blk_tried) <= Len(Compiled)
    /\ \A i \in DOMAIN blk_tried :
          /\ blk_tried[i].backend = Compiled[i]
          /\ i > 1 => blk_tried[i - 1].ret = -ENOSYS
    /\ (blk_pc = "done" /\ blk_op = "create") =>
          /\ \A i \in DOMAIN blk_tried :
                blk_tried[i].ret # -ENOSYS => i = Len(blk_tried) /\ blk_ret = blk_tried[i].ret
          /\ blk_ret = -ENOSYS =>
                /\ Len(blk_tried) = Len(Compiled)
                /\ \A i \in DOMAIN blk_tried : blk_tried[i].ret = -ENOSYS
          /\ blk_ret = 0 =>
                blk_blocks # <<>> /\ blk_blocks[Len(blk_blocks)] = blk_tried[Len(blk_tried)].backend

\* the mmap backend made the block after dma-buf reported -ENOSYS
C13_Witness ==
    /\ blk_pc = "done"
    /\ blk_op = "create"
    /\ blk_tried = <<[backend |-> "dmabuf", ret |-> -ENOSYS], [backend |-> "mmap", ret |-> 0]>>
    /\ blk_ret = 0
    /\ blk_blocks = <<"mmap">>

(***************************************************************************)
(* C14: for every well-formed type string                                  *)
(* <endian>:<sign><bits>/<length>[X<repeat>]>><shift> the parsed format    *)
(* has is_be = (endian is b), is_signed = (sign is s or S), bits, length   *)
(* and shift equal to the given numbers, repeat equal to the given repeat  *)
(* or 1 without X group, and is_fully_defined true exactly when the sign   *)
(* is upper-case or bits = length.  Checked under SpecFmt.                 *)
(***************************************************************************)
C14_ParsedFormat ==
    (ty_pc = "parsed" /\ ty_given.cut = "none") =>
        /\ chn_format.is_be = (ty_given.endian = "b")
        /\ chn_format.is_signed = (ty_given.sign \in {"s", "S"})
        /\ chn_format.bits = ty_given.bits
        /\ chn_format.length = ty_given.length
        /\ chn_format.shift = ty_given.shift
        /\ chn_format.repeat = (IF ty_given.repeat = -1 THEN 1 ELSE ty_given.repeat)
        /\ chn_format.is_fully_defined =
              (ty_given.sign \in {"S", "U"} \/ ty_given.bits = ty_given.length)

\* "be:U16/16X4>>0" was parsed: big, unsigned, 16, 16, shift 0, repeat 4, fully defined
C14_Witness ==
    /\ ty_pc = "parsed"
    /\ ty_buf = <<"b", "e", ":", "U", "1", "6", "/", "1", "6", "X", "4", ">", ">", "0">>
    /\ chn_format = [is_be |-> TRUE, is_signed |-> FALSE, is_fully_defined |-> TRUE,
                     bits |-> 16, length |-> 16, repeat |-> 4, shift |-> 0]

(***************************************************************************)
(* C15: every format the scan-element parser produces, for any type string *)
(* read from the device (well-formed, with bits larger than length, with   *)
(* repeat 0, or truncated after the X), satisfies bits <= length and       *)
(* repeat >= 1.  Checked under SpecFmt.                                    *)
(*                                                                         *)
(* The parser stores what sscanf read and validates nothing.               *)
(***************************************************************************)
C15_FormatSane ==
    ty_pc = "parsed" =>
        /\ chn_format.bits <= chn_format.length
        /\ chn_format.repeat >= 1

(***************************************************************************)
(* C16: in detect_and_move_global_attrs each device-level attribute is     *)
(* first tested against every channel at level private (is_global_attr =   *)
(* 2) and only when no channel matched at that level is it tested at level *)
(* shared (= 1): an attribute private to at least one channel is added to  *)
(* those channels only and to no channel for which it is merely shared;    *)
(* every matched attribute is removed from the device attribute list.      *)
(* Checked under SpecDev, for constructions that do not run out of memory. *)
(***************************************************************************)
\* the channels the device had when detect_and_move_global_attrs began
ScannedChans == SubSeq(dv_chans, 1, dv_nchan)

\* the channel has an attribute read from the file attr
HasAttr(chn, attr) == \E a \in DOMAIN chn.attrs : chn.attrs[a].filename = attr

\* the attribute is in the device attribute list
InDeviceList(attr) == \E a \in DOMAIN dv_attrs : dv_attrs[a] = attr

C16_PrivateBeforeShared ==
    dv_pc \in {"global", "leftover", "done"} =>
        \A i \in DOMAIN dv_moved :
            LET attr == dv_moved[i].attr
                private == LevelMatches(ScannedChans, attr, 2)
                shared == LevelMatches(ScannedChans, attr, 1)
            IN  /\ dv_moved[i].to = (IF private # {} THEN private ELSE shared)
                /\ \A k \in 1..dv_nchan : HasAttr(dv_chans[k], attr) <=> k \in dv_moved[i].to
                /\ (private # {} \/ shared # {}) => ~InDeviceList(attr)

\* an attribute private to one channel and shared for another was moved
C16_Witness ==
    /\ dv_pc = "done"
    /\ \E i \in DOMAIN dv_moved :
          /\ LevelMatches(ScannedChans, dv_moved[i].attr, 2) # {}
          /\ LevelMatches(ScannedChans, dv_moved[i].attr, 1) # {}
          /\ \E k \in LevelMatches(ScannedChans, dv_moved[i].attr, 2) :
                HasAttr(dv_chans[k], dv_moved[i].attr)
          /\ \E k \in LevelMatches(ScannedChans, dv_moved[i].attr, 1) :
                ~HasAttr(dv_chans[k], dv_moved[i].attr)

(***************************************************************************)
(* C17: a device-level attribute that matched no channel as private or     *)
(* shared becomes a new channel only if it satisfies the strict is_channel *)
(* test (digit or channel-modifier discriminator); a leftover attribute    *)
(* that passes only the non-strict test stays a device attribute.  Checked *)
(* under SpecDev.                                                          *)
(*                                                                         *)
(* The leftover pass calls is_channel in its non-strict mode.  (No device  *)
(* attribute passes the strict test: add_attr_or_channel_helper makes a    *)
(* channel attribute of every name that does.)  C17_Original is the claim  *)
(* as stated and is violated; C17_LeftoverNonStrict is what the code does. *)
(***************************************************************************)
\* the attribute of the device list matched no channel
Unmatched(i) == dv_moved[i].to = {}

\* some channel of the device was made from, or given, the attribute
BecameChannel(attr) == \E k \in DOMAIN dv_chans : HasAttr(dv_chans[k], attr)

\* the name starts with in_ or out_ and has another underscore after that, or
\* starts with in_timestamp_
LooseChannelName(attr) ==
    \/ HasPrefixAt(attr, 1, W_timestamp)
    \/ HasPrefixAt(attr, 1, W_in) /\ \E k \in 4..Len(attr) : attr[k] = "_"
    \/ HasPrefixAt(attr, 1, W_out) /\ \E k \in 5..Len(attr) : attr[k] = "_"

\* the character before that underscore is a digit, or a modifier name follows it
StrictChannelName(attr) ==
    LET from == IF HasPrefixAt(attr, 1, W_in) THEN 4 ELSE 5
        ptr == StrChr(attr, from, "_")
    IN  \/ HasPrefixAt(attr, 1, W_timestamp)
        \/ /\ LooseChannelName(attr)
           /\ \/ IsDigit(At(attr, ptr - 1))
              \/ \E m \in ModifierNames :
                    HasPrefixAt(attr, ptr + 1, m) /\ At(attr, ptr + 1 + Len(m)) \in {NUL, "_"}

C17_Original ==
    dv_pc = "done" =>
        \A i \in DOMAIN dv_moved :
            Unmatched(i) =>
                /\ BecameChannel(dv_moved[i].attr) => StrictChannelName(dv_moved[i].attr)
                /\ ~StrictChannelName(dv_moved[i].attr) => InDeviceList(dv_moved[i].attr)

\* C17, as the code has it: a device-level attribute that matched no channel as
\* private or shared becomes a new channel exactly when it satisfies the
\* non-strict is_channel test (an in_ or out_ prefix followed later by an
\* underscore, or the in_timestamp_ prefix) and is then removed from the device
\* attribute list; a leftover attribute that fails the non-strict test stays a
\* device attribute.
C17_LeftoverNonStrict ==
    dv_pc = "done" =>
        \A i \in DOMAIN dv_moved :
            Unmatched(i) =>
                /\ LooseChannelName(dv_moved[i].attr) =>
                      BecameChannel(dv_moved[i].attr) /\ ~InDeviceList(dv_moved[i].attr)
                /\ ~LooseChannelName(dv_moved[i].attr) =>
                      ~BecameChannel(dv_moved[i].attr) /\ InDeviceList(dv_moved[i].attr)

\* a leftover attribute that fails the strict test became a channel, and one
\* that fails both tests stayed a device attribute
C17_Witness ==
    /\ dv_pc = "done"
    /\ \E i \in DOMAIN dv_moved :
          /\ Unmatched(i)
          /\ ~StrictChannelName(dv_moved[i].attr)
          /\ BecameChannel(dv_moved[i].attr)
    /\ \E i \in DOMAIN dv_moved :
          /\ Unmatched(i)
          /\ ~LooseChannelName(dv_moved[i].attr)
          /\ InDeviceList(dv_moved[i].attr)

(***************************************************************************)
(* C18: a differential attribute voltage0-voltage1_raw present at device   *)
(* level, with input channels voltage0 and voltage1 already known, is      *)
(* classified by is_global_attr as shared (outcome 1) for both channels,   *)
(* is added to both, and is removed from the device-level attribute list.  *)
(* Checked under SpecDev.                                                  *)
(*                                                                         *)
(* The differential branch of is_global_attr needs a dash in the id of the *)
(* channel: it serves a name without numbers (in_voltage-voltage_scale)    *)
(* and a channel with them (voltage0-voltage1).  C18_Original is the claim *)
(* as stated and is violated; C18_Differential is what the code does.      *)
(***************************************************************************)
DiffRaw == W_in \o W_voltage \o <<"0", "-">> \o W_voltage \o <<"1", "_">> \o W_raw
DiffRawBare == W_voltage \o <<"0", "-">> \o W_voltage \o <<"1", "_">> \o W_raw
DiffScale == W_in \o W_voltage \o <<"-">> \o W_voltage \o <<"_">> \o W_scale
DiffId == W_voltage \o <<"0", "-">> \o W_voltage \o <<"1">>

\* the scanned input channels with the id
InputChans(id) == {k \in 1..dv_nchan : dv_chans[k].id = id /\ ~dv_chans[k].is_output}

\* the input channels voltage0 and voltage1 are known
BothKnown == InputChans(W_voltage \o <<"0">>) # {} /\ InputChans(W_voltage \o <<"1">>) # {}

AfterStem(attr) == CHOOSE p \in 4..Len(attr) : attr[p] = "_" /\ \A q \in 4..(p - 1) : attr[q] # "_"

\* the name is in_<X><d>_<suffix>
NumberedInput(attr) ==
    /\ HasPrefixAt(attr, 1, W_in)
    /\ \E p \in 4..Len(attr) : attr[p] = "_"
    /\ AfterStem(attr) > 4
    /\ IsDigit(attr[AfterStem(attr) - 1])

\* <X><d>
StemAndNumber(attr) == SubSeq(attr, 4, AfterStem(attr) - 1)

\* the modifier keywords the suffix begins with
SuffixModifiers(attr) ==
    {m \in ModifierNames :
        /\ SubSeq(attr, AfterStem(attr) + 1, AfterStem(attr) + Len(m)) = m
        /\ \/ Len(attr) = AfterStem(attr) + Len(m)
           \/ At(attr, AfterStem(attr) + Len(m) + 1) = "_"}

CommonPrefixes(names) ==
    {n \in 1..Len(names[1].name) :
        /\ names[1].name[n] = "_"
        /\ \A k \in DOMAIN names :
              /\ Len(names[k].name) >= n
              /\ SubSeq(names[k].name, 1, n) = SubSeq(names[1].name, 1, n)}

\* the length of the longest of them; 0 when there is none, or one attribute
LongestCommon(names) ==
    IF Len(names) < 2 \/ CommonPrefixes(names) = {} THEN 0
    ELSE CHOOSE n \in CommonPrefixes(names) : \A o \in CommonPrefixes(names) : o <= n

C20_LongestPrefix ==
    cn_pc = "named" =>
        LET n == LongestCommon(cn_given)
            now == cn_attrs \o cn_prot
        IN  /\ cn_ret = 0
            /\ Len(cn_attrs) + Len(cn_prot) = Len(cn_given)
            /\ IF n = 0
               THEN ~cn_has_name /\ now = cn_given
               ELSE /\ cn_has_name
                    /\ cn_name = SubSeq(cn_given[1].name, 1, n - 1)
                    /\ \A k \in DOMAIN cn_given :
                          /\ now[k].name = SubSeq(cn_given[k].name, n + 1, Len(cn_given[k].name))
                          /\ cn_given[k].name = cn_name \o <<"_">> \o now[k].name
                          /\ now[k].filename = cn_given[k].filename

\* a channel with an exposed and a protected attribute whose names share two
\* nested prefixes got the longer one as its name
C20_Witness ==
    /\ cn_pc = "named"
    /\ Len(cn_attrs) >= 1 /\ Len(cn_prot) >= 1
    /\ Cardinality(CommonPrefixes(cn_given)) >= 2
    /\ cn_has_name
    /\ cn_name = W_bar \o <<"_">> \o W_baz
    /\ \E k \in DOMAIN cn_attrs : cn_attrs[k].name = W_raw

(***************************************************************************)
(* C21: after any sequence of add_channel calls on a device (from the      *)
(* device directory, from scan_elements and from the leftover-attribute    *)
(* pass), no two channels of the device have the same id and the same      *)
(* direction; an input and an output channel with the same id may coexist. *)
(* Checked under SpecAdd, for a device that is no hwmon device: a call     *)
(* that returned 0 for a name left one channel with the id and the         *)
(* direction of the name, holding the attribute.                           *)
(***************************************************************************)
\* the channels with the id and the direction
ChansOf(id, is_output) ==
    {k \in DOMAIN ac_chans : ac_chans[k].id = id /\ ac_chans[k].is_output = is_output}

\* the channel holds the file as an exposed or as a protected attribute
Holds(k, name) ==
    \/ \E a \in DOMAIN ac_chans[k].attrs : ac_chans[k].attrs[a].filename = name
    \/ \E a \in DOMAIN ac_prot[k] : ac_prot[k][a] = name

C21_UniqueChannels ==
    /\ \A j, k \in DOMAIN ac_chans :
          (ac_chans[j].id = ac_chans[k].id /\ ac_chans[j].is_output = ac_chans[k].is_output)
              => j = k
    /\ (ac_last.caller # "none" /\ ac_last.ret = 0) =>
          \E k \in ChansOf(get_channel_id(ac_last.name), At(ac_last.name, 1) = "o") :
              Holds(k, ac_last.name)

\* an input and an output channel with the same id, the input one with an
\* attribute of the device directory and one of scan_elements
C21_Witness ==
    \E j, k \in DOMAIN ac_chans :
        /\ ac_chans[j].id = ac_chans[k].id
        /\ ~ac_chans[j].is_output /\ ac_chans[k].is_output
        /\ Len(ac_chans[j].attrs) >= 1 /\ Len(ac_prot[j]) >= 1

(***************************************************************************)
(* C22: local_readbuf and local_writebuf never return -EAGAIN or -EINTR to *)
(* the caller: an interrupted or would-block poll, read or write is        *)
(* retried inside the call, and the call ends only with a byte count, a    *)
(* timeout, a cancellation or a non-transient error.  Checked under        *)
(* SpecIO, where poll fails with EINTR only.                               *)
(***************************************************************************)
C22_NoTransientResult ==
    io_op \in RwOps =>
        /\ io_pc = "done" =>
              /\ io_result \notin {-EAGAIN, -EINTR}
              /\ \/ io_result >= 0 /\ io_result = io_cnt
                 \/ io_result \in {-ETIMEDOUT, -EBADF, -EIO, -EINVAL}
        /\ io_ret = -1 => io_pc \in {"check", "poll", "xfer"}

\* a read or write that would block after bytes were transferred: the call
\* goes on with another poll
C22_Witness ==
    /\ io_op \in RwOps
    /\ io_pc = "check"
    /\ io_ret = -1
    /\ io_cnt > 0
    /\ io_len > 0

(***************************************************************************)
(* C23: in local_create_buffer the write of enable=0 to the buffer         *)
(* precedes every channel-enable write, every channel with index >= 0 is   *)
(* written disabled before any channel is written enabled, only channels   *)
(* with index >= 0 that are set in the caller's mask are written enabled,  *)
(* and a failure of any of these writes aborts the creation with that      *)
(* error.  Checked under SpecBuf on the log of the system calls.           *)
(***************************************************************************)
\* the entry of the log is a write of val to the enable file of channel c
ChnWrite(e, c, val) == IsWrite(e, "chn_en") /\ e.chn = c /\ e.val = val

\* the channels that take part in buffers
Indexed == {c \in DOMAIN dev_chans : dev_chans[c].index >= 0}

C23_CreateWriteOrder ==
    b_op = "create" =>
        /\ \A i \in DOMAIN oplog :
              IsWrite(oplog[i], "chn_en") =>
                  \E j \in 1..(i - 1) :
                      IsWrite(oplog[j], "enable") /\ oplog[j].val = 0 /\ oplog[j].res >= 0
        /\ \A i \in DOMAIN oplog :
              (IsWrite(oplog[i], "chn_en") /\ oplog[i].val = 1) =>
                  /\ oplog[i].chn \in Indexed \cap b_maskreq
                  /\ \A c \in Indexed :
                        \E j \in 1..(i - 1) : ChnWrite(oplog[j], c, 0) /\ oplog[j].res >= 0
        /\ \A i \in DOMAIN oplog :
              (oplog[i].ev = "write" /\ oplog[i].res < 0) =>
                  /\ \A j \in (i + 1)..Len(oplog) : oplog[j].ev = "close"
                  /\ b_pc \in {"cb_err_close", "cb_err_close_eventfd", "none"}
                  /\ b_err = oplog[i].res
                  /\ b_pc = "none" => b_result = oplog[i].res

\* a buffer made for a mask that has one of two indexed channels: both were
\* written disabled and one was written enabled
C23_Witness ==
    /\ b_op = "create"
    /\ b_pc = "ready"
    /\ Cardinality(Indexed) = 2
    /\ Cardinality(b_maskreq) = 1
    /\ \E i \in DOMAIN oplog : IsWrite(oplog[i], "chn_en") /\ oplog[i].val = 1
    /\ \A c \in Indexed : \E i \in DOMAIN oplog : ChnWrite(oplog[i], c, 0)

(***************************************************************************)
(* C24: within one local_readbuf or local_writebuf call with a non-zero    *)
(* timeout, the timeout passed to every poll is recomputed from the start  *)
(* time taken at the beginning of the call, so no poll waits longer than   *)
(* timeout_ms minus the time already elapsed: however many EINTR, EAGAIN   *)
(* or partial-transfer retries occur, a call whose descriptor never        *)
(* becomes ready returns -ETIMEDOUT no later than timeout_ms after it      *)
(* started.  Checked under SpecIO, for timeouts and elapsed times in the   *)
(* range of int: a poll in progress ends at start + timeout_ms at the      *)
(* latest, or was entered after that moment and does not wait at all; and  *)
(* the poll that reported the timeout did not end before that moment.      *)
(***************************************************************************)
C24_PollWithinTimeout ==
    (io_op \in RwOps /\ io_timeout # 0) =>
        /\ io_pc = "poll" =>
              /\ io_deadline >= 0
              /\ io_now <= io_deadline
              /\ io_deadline <= io_start + io_timeout \/ io_deadline = io_now
        /\ (io_pc = "done" /\ io_result = -ETIMEDOUT) =>
              io_deadline >= io_start + io_timeout

\* a poll after a partial transfer, with time elapsed since the start of the
\* call: it waits for what is left of the timeout
C24_Witness ==
    /\ io_op \in RwOps
    /\ io_timeout # 0
    /\ io_pc = "poll"
    /\ io_cnt > 0
    /\ io_now > io_start
    /\ io_deadline = io_start + io_timeout
    /\ io_deadline > io_now


\* ---------------------------------------------------------------------------
\* C25: when local_enable_buffer returns -EINVAL because the sample count does
\* not fit the capabilities of the buffer (a block backend is supported and
\* nb_samples is not 0, or none is supported and nb_samples is 0), it has
\* written none of the attributes length, watermark and enable: the step that
\* returns leaves the three values of the buffer as they were, and no write is
\* made in the call.
C25_Mismatch(p, nb) == (p.dmabuf_supported \/ p.mmap_supported) # (nb = 0)

C25_MismatchWritesNothing ==
    [][ /\ (b_op = "enable" /\ b_pc # "none" /\ C25_Mismatch(pdata, en_nb)) =>
              /\ b_pc = "ready"
              /\ b_result = -EINVAL
              /\ oplog = <<>>
        /\ (b_pc = "ready" /\ b_op' = "enable" /\ oplog' = <<>>
            /\ C25_Mismatch(pdata', en_nb')) =>
              /\ b_pc' = "ready"
              /\ b_result' = -EINVAL
              /\ UNCHANGED <<buf_length, buf_watermark, buf_enable, chn_en>> ]_vars

\* a refused call on a buffer that an earlier call has sized and enabled
C25_Witness ==
    /\ b_op = "enable"
    /\ b_pc = "ready"
    /\ b_result = -EINVAL
    /\ C25_Mismatch(pdata, en_nb)
    /\ oplog = <<>>
    /\ buf_length > 0
    /\ buf_enable = 1


\* ---------------------------------------------------------------------------
\* C26: in local_readbuf and local_writebuf a read or write that returns 0
\* bytes ends the call with -EIO, also when bytes were transferred earlier in
\* the same call: the step that takes the 0 goes to the end of the call with
\* the result -EIO, and no call for one byte or more ends with the result 0 or
\* with a byte count in place of the -EIO left in ret.
C26_ZeroBytesIsEIO ==
    [][ /\ (io_op \in RwOps /\ io_pc = "xfer" /\ xfer_apply(0, 0)) =>
              /\ io_pc' = "done"
              /\ io_ret' = -EIO
              /\ io_result' = -EIO
              /\ io_cnt' = io_cnt
        /\ (io_op' \in RwOps /\ io_pc' = "done") =>
              /\ io_ret' = -EIO => io_result' = -EIO
              /\ io_req' > 0 => io_result' # 0 ]_vars

\* a call that has transferred bytes and ends with -EIO
C26_Witness ==
    /\ io_op \in RwOps
    /\ io_pc = "done"
    /\ io_ret = -EIO
    /\ io_result = -EIO
    /\ io_cnt > 0
    /\ io_cnt < io_req


\* ---------------------------------------------------------------------------
\* C27: on a device with multi-buffer support (the ioctl for the per-index
\* descriptor succeeds) whose attribute files can all be read and written,
\* local_create_buffer with an index above 0 succeeds: such a call takes no
\* error path, so as long as no system call of the call has failed and every
\* scanned channel has its en file, err stays at 0 and the call is not in the
\* error labels.
C27_FileErrors == {-ENOENT, -EACCES, -EINVAL, -ENOMEM}

C27_MultiBufferCreate ==
    ( /\ b_op = "create"
      /\ b_idx > 0
      /\ b_ioctl = 0
      /\ \A c \in DOMAIN dev_chans : dev_chans[c].has_en
      /\ \A i \in DOMAIN oplog : oplog[i].res \notin C27_FileErrors ) =>
        /\ b_err >= 0
        /\ b_pc \notin {"cb_err_close", "cb_err_close_eventfd"}
        /\ b_pc = "none" => b_result >= 0


\* ---------------------------------------------------------------------------
\* C28: on every failure path of local_create_buffer every descriptor the call
\* has got so far (the eventfd, the device node, the per-index descriptor) is
\* closed exactly once and none stays open; on success exactly the data
\* descriptor and the cancellation descriptor stay open. During the call no
\* descriptor is closed twice, nothing is closed that the call did not get,
\* and the open descriptors are the ones got and not yet closed.
C28_Got ==
    {oplog[i].fd : i \in {j \in DOMAIN oplog :
                            /\ oplog[j].ev \in {"eventfd", "open", "ioctl"}
                            /\ oplog[j].fd >= 0}}

C28_Closes(fd) ==
    Cardinality({i \in DOMAIN oplog : oplog[i].ev = "close" /\ oplog[i].fd = fd})

C28_DescriptorsClosed ==
    b_op = "create" =>
        /\ \A fd \in C28_Got : C28_Closes(fd) <= 1
        /\ \A i \in DOMAIN oplog :
              oplog[i].ev = "close" =>
                 \E j \in 1..(i - 1) : /\ oplog[j].ev \in {"eventfd", "open", "ioctl"}
                                       /\ oplog[j].fd = oplog[i].fd
        /\ open_fds = {fd \in C28_Got : C28_Closes(fd) = 0}
        /\ (b_pc = "none") =>
              /\ b_result < 0
              /\ open_fds = {}
              /\ \A fd \in C28_Got : C28_Closes(fd) = 1
        /\ (b_pc = "ready") =>
              /\ open_fds = {pdata.fd, pdata.cancel_fd}
              /\ pdata.fd # pdata.cancel_fd
              /\ pdata.fd = b_fd /\ pdata.cancel_fd = b_cancel_fd
              /\ pdata.multi_buffer => Cardinality(C28_Got) = 3

\* a call that got all three descriptors and then failed
C28_Witness ==
    /\ b_op = "create"
    /\ b_pc = "none"
    /\ b_result < 0
    /\ b_ioctl = 0
    /\ Cardinality(C28_Got) = 3
    /\ open_fds = {}


\* ---------------------------------------------------------------------------
\* C29: for every combination of the flags dmabuf_supported and mmap_supported
\* of a buffer, local_free_block releases a block through at most one backend,
\* and it is the backend local_enqueue_block and local_dequeue_block go to for
\* that buffer: dma-buf when dmabuf_supported, otherwise mmap when
\* mmap_supported.
C29_FreeOneBackend ==
    blk_op = "free" =>
        /\ Len(blk_disp) <= 1
        /\ blk_disp = dispatch_first(blk_flags)
        /\ blk_disp = IF with_dmabuf /\ blk_flags.dmabuf_supported THEN <<"dmabuf">>
                      ELSE IF with_mmap /\ blk_flags.mmap_supported THEN <<"mmap">>
                      ELSE <<>>


\* ---------------------------------------------------------------------------
\* C30: the value local_enable_buffer writes to the attribute enable follows
\* its enable argument: a call with enable = false writes 0 (the buffer is
\* disabled) and a call with enable = true writes 1.
C30_EnableFollowsArgument ==
    b_op = "enable" =>
        \A i \in DOMAIN oplog :
            (oplog[i].ev = "write" /\ oplog[i].attr = "enable") =>
                /\ oplog[i].val = (IF en_arg THEN 1 ELSE 0)
                /\ oplog[i].res >= 0 => buf_enable = (IF en_arg THEN 1 ELSE 0)

=============================================================================
